---- MODULE Spec2Model ----
(***************************************************************************)
(* A model of xtemplate's request handlers (server.go) and of its build    *)
(* of static files and template files (build.go).                          *)
(*                                                                         *)
(* Spec        one request at a time through bufferingTemplateHandler or   *)
(*             flushingTemplateHandler, statement by statement.            *)
(* SpecStatic  a build of a tree of static files by addStaticFileHandler,  *)
(*             then requests through staticFileHandler.                    *)
(* SpecTmpl    a build of a tree of template files by addTemplateHandler,  *)
(*             then the initializers ("INIT ..." templates).               *)
(* SpecNeg     calls of negiotiateEncoding on the variants of a built file.*)
(* SpecMux     SpecStatic on a tree with a file named like a pattern.      *)
(* SpecId      concurrent calls of Instance() taking their ids.            *)
(* SpecPool    concurrent buffered requests sharing bufPool.               *)
(* SpecReload  the supervisor: Reload() beside the requests it forwards.   *)
(***************************************************************************)
EXTENDS Integers, Sequences, FiniteSets, TLC

VARIABLES
    pc,          \* position of the request in its handler
    handler,     \* handler bound to the matched route: "buffered" | "sse" | "none"
    req,         \* the request: [accept, canFlush]
    buf,         \* the *bytes.Buffer taken from bufPool (buffered handler)
    ctx,         \* responseContext of the dot: [status, header]
    tx,          \* the dot's pendingTx: "none" | "open" | "committed" | "commitfailed" | "rolledback"
    nCommit,     \* calls of tx.Commit() made for this request
    nRollback,   \* calls of tx.Rollback() made for this request
    err,         \* the error tmpl.Execute returned / resolvePendingTx returned
    outcome,     \* how the template exited: "nil" | "return" | "handler" | "other"
    executed,    \* calls of tmpl.Execute made for this request
    delegated,   \* calls of handlerErr.ServeHTTP made for this request
    w,           \* the http.ResponseWriter: [header, status, sent, body]
    disk,        \* the template FS: path -> [raw, size] (raw bytes, size on disk)
    queue,       \* files fs.WalkDir has yet to visit, in lexical order
    files,       \* x.files: identity path -> fileInfo
    routes,      \* x.router: registered pattern -> the handler bound to it
    build,       \* "scanning" | "ok" | "error" | "panic" | "off"
    resp,        \* the last response of staticFileHandler
    templates,   \* x.templates: template name -> the file whose tree it holds
    pending,     \* addTemplateHandler's loop: the file and its trees yet to add
    inits,       \* the loop over the "INIT " templates: name -> how its run ended
    neg,         \* one call of negiotiateEncoding: its arguments and its result
    nextInstanceIdentity,  \* the package's counter of instances
    instances,   \* the calls of Instance(): call -> [pc, id, read]
    drawn,       \* the calls in the order they took their id
    pool,        \* bufPool: the buffers it holds
    bufs,        \* the buffers bufPool has made: buffer -> its bytes
    runs,        \* the calls of bufferingTemplateHandler made so far
    reqs,        \* the concurrent requests: request -> [pc, buf, run, from, body]
    current,     \* the supervisor's pointer to the instance that serves
    cancelled,   \* the instances whose lifecycle context is cancelled
    reload,      \* the task that runs Reload(): [pc, new, old, err, n]
    clients      \* the requests at the supervisor: request -> [pc, inst, status]

hvars == <<pc, handler, req, buf, ctx, tx, nCommit, nRollback, err, outcome,
           executed, delegated, w>>
tvars == <<templates, pending, inits>>
nvars == <<neg>>
ivars == <<nextInstanceIdentity, instances, drawn>>
pvars == <<pool, bufs, runs, reqs>>
rvars == <<current, cancelled, reload, clients>>
xvars == <<ivars, pvars, rvars>>
svars == <<disk, queue, files, routes, build, resp, tvars, nvars, xvars>>
vars == <<hvars, svars>>

----------------------------------------------------------------------------
(* Bounds *)

\* most bytes one template execution writes
MaxOut == 2

\* bytes a template writes
Bytes == {"x", "y"}

\* status codes a template passes to SetStatus
Statuses == {201, 404}

\* header names a template passes to SetHeader (value "t")
TmplHeaders == {"X-A", "Content-Type"}

Accepts == {"text/event-stream", "text/html", ""}

Outcomes == {"nil", "return", "handler", "other"}

----------------------------------------------------------------------------
(* net/http's ResponseWriter, as the handlers use it *)

NoHeader == [n \in {} |-> ""]

NewWriter == [header |-> NoHeader, status |-> 0, sent |-> NoHeader, body |-> <<>>]

\* h.Set(name, value)
HeaderSet(h, name, value) ==
    [k \in DOMAIN h \cup {name} |-> IF k = name THEN value ELSE h[k]]

\* maps.Copy(dst, src)
MapsCopy(dst, src) ==
    [k \in DOMAIN dst \cup DOMAIN src |-> IF k \in DOMAIN src THEN src[k] ELSE dst[k]]

\* w.WriteHeader(code): the status line and the header map as it is now go out;
\* a second call is superfluous and changes nothing
WriteHeader(rw, code) ==
    IF rw.status # 0 THEN rw
    ELSE [rw EXCEPT !.status = code, !.sent = rw.header]

\* w.Write(bytes): an implicit WriteHeader(200) when none was written
Write(rw, bytes) ==
    LET rw1 == WriteHeader(rw, 200)
    IN  [rw1 EXCEPT !.body = rw1.body \o bytes]

\* http.Error(w, msg, code)
HttpError(rw, msg, code) ==
    LET h1 == HeaderSet(rw.header, "Content-Type", "text/plain; charset=utf-8")
        h2 == HeaderSet(h1, "X-Content-Type-Options", "nosniff")
    IN  Write(WriteHeader([rw EXCEPT !.header = h2], code), <<msg>>)

----------------------------------------------------------------------------
(* The dot's pending transaction *)

\* context.resolvePendingTx(e): commit when e is nil, roll back otherwise;
\* returns the error to report.  commitOk is tx.Commit()'s result.
resolvePendingTx(t, e, commitOk) ==
    IF t # "open" THEN [tx |-> t, err |-> e, commits |-> 0, rollbacks |-> 0]
    ELSE IF e = "nil"
         THEN [tx |-> IF commitOk THEN "committed" ELSE "commitfailed",
               err |-> IF commitOk THEN "nil" ELSE "dberr",
               commits |-> 1, rollbacks |-> 0]
         ELSE [tx |-> "rolledback", err |-> e, commits |-> 0, rollbacks |-> 1]

----------------------------------------------------------------------------
(* Initial states *)

NoFile == [p \in {} |-> 0]

NoBytes == [fmt |-> "none", data |-> ""]

\* no static request served yet
NoResp ==
    [stage |-> "idle", status |-> 0, path |-> <<>>, query |-> <<>>, hasQuery |-> FALSE,
     etag |-> <<>>, contentType |-> "", encoding |-> "", vary |-> "",
     cacheControl |-> "", variant |-> 0, file |-> <<>>, body |-> NoBytes, warned |-> FALSE,
     negErr |-> FALSE]

\* negiotiateEncoding is not called
NoCall == [encodings |-> <<>>, acceptHeaders |-> <<>>, idx |-> 0, err |-> FALSE,
           returned |-> FALSE]

\* addTemplateHandler is not in its loop
NoPending == [file |-> <<>>, names |-> {}]

HandlerIdle ==
    /\ pc = "idle"
    /\ handler = "none"
    /\ req = [accept |-> "", canFlush |-> TRUE]
    /\ buf = <<>>
    /\ ctx = [status |-> 200, header |-> NoHeader]
    /\ tx = "none"
    /\ nCommit = 0
    /\ nRollback = 0
    /\ err = "nil"
    /\ outcome = "nil"
    /\ executed = 0
    /\ delegated = 0
    /\ w = NewWriter

StaticOff ==
    /\ disk = NoFile
    /\ queue = <<>>
    /\ files = NoFile
    /\ routes = NoFile
    /\ build = "off"
    /\ resp = NoResp
    /\ templates = NoFile
    /\ pending = NoPending
    /\ inits = NoFile
    /\ neg = NoCall

\* most calls of Instance()
MaxBuilds == 3

Builds == 1..MaxBuilds

\* no call of Instance() was made
IdOff ==
    /\ nextInstanceIdentity = 0
    /\ instances = [b \in Builds |-> [pc |-> "idle", id |-> 0, read |-> 0]]
    /\ drawn = <<>>

\* most requests in their handler at one time
MaxReqs == 2

\* most calls of the buffered handler in one behaviour
MaxRuns == 3

\* most bytes a call of the buffered handler writes to its buffer
MaxBufLen == 1

Reqs == 1..MaxReqs

\* the request is not in its handler
NoReq == [pc |-> "idle", buf |-> 0, run |-> 0, from |-> "none", body |-> <<>>]

\* bufPool is empty and no request is in its handler
PoolOff ==
    /\ pool = {}
    /\ bufs = <<>>
    /\ runs = 0
    /\ reqs = [r \in Reqs |-> NoReq]

\* most calls of Reload()
MaxReloads == 2

\* most requests at the supervisor at one time
MaxClients == 2

Clients == 1..MaxClients

\* the request has not reached the supervisor
NoClient == [pc |-> "idle", inst |-> 0, status |-> 0, stopped |-> FALSE]

\* no call of Reload() is running
NoReload == [pc |-> "idle", new |-> 0, old |-> 0, err |-> FALSE, n |-> 0]

\* the supervisor serves its first instance
ReloadOff ==
    /\ current = 1
    /\ cancelled = {}
    /\ reload = NoReload
    /\ clients = [c \in Clients |-> NoClient]

\* the parts of the program a specification leaves alone
OthersOff == IdOff /\ PoolOff /\ ReloadOff

Init == HandlerIdle /\ StaticOff /\ OthersOff

----------------------------------------------------------------------------
(* Template execution: what a template does through its dot while          *)
(* tmpl.Execute runs (pc = "bexec" in the buffered handler, "sexec" in the *)
(* streaming one)                                                          *)

Executing == pc \in {"bexec", "sexec"}

\* the template emits a byte: into buf (buffered), onto the wire (streaming)
TmplWrite(b) ==
    /\ Executing
    /\ Len(IF pc = "bexec" THEN buf ELSE w.body) < MaxOut
    /\ IF pc = "bexec"
       THEN buf' = Append(buf, b) /\ w' = w
       ELSE w' = Write(w, <<b>>) /\ buf' = buf
    /\ UNCHANGED <<pc, handler, req, ctx, tx, nCommit, nRollback, err, outcome,
                   executed, delegated, svars>>

\* {{.Flush}}: forces out what was written so far, the header included
TmplFlush ==
    /\ pc = "sexec"
    /\ w.status = 0
    /\ w' = WriteHeader(w, 200)
    /\ UNCHANGED <<pc, handler, req, buf, ctx, tx, nCommit, nRollback, err, outcome,
                   executed, delegated, svars>>

\* {{.SetStatus s}}
TmplSetStatus(s) ==
    /\ pc = "bexec"
    /\ ctx.status # s
    /\ ctx' = [ctx EXCEPT !.status = s]
    /\ UNCHANGED <<pc, handler, req, buf, tx, nCommit, nRollback, err, outcome,
                   executed, delegated, w, svars>>

\* {{.SetHeader n "t"}}
TmplSetHeader(n) ==
    /\ pc = "bexec"
    /\ n \notin DOMAIN ctx.header
    /\ ctx' = [ctx EXCEPT !.header = HeaderSet(ctx.header, n, "t")]
    /\ UNCHANGED <<pc, handler, req, buf, tx, nCommit, nRollback, err, outcome,
                   executed, delegated, w, svars>>

\* first data access ({{.Query}}, {{.Exec}}): the transaction is opened lazily
TmplQuery ==
    /\ Executing
    /\ tx = "none"
    /\ tx' = "open"
    /\ UNCHANGED <<pc, handler, req, buf, ctx, nCommit, nRollback, err, outcome,
                   executed, delegated, w, svars>>

\* tmpl.Execute returns: nil, or an error wrapping ReturnError, a HandlerError,
\* or any other error
TmplExit(o) ==
    /\ Executing
    /\ err' = o
    /\ outcome' = o
    /\ pc' = IF pc = "bexec" THEN "bpost" ELSE "spost"
    /\ UNCHANGED <<handler, req, buf, ctx, tx, nCommit, nRollback,
                   executed, delegated, w, svars>>

\* errors.As(err, &handlerErr)
IsHandlerError(e) == e = "handler"

\* mutant: the ReturnError check is missing
IsReturnError_Never(e) == FALSE

\* errors.As(err, &ReturnError{})
IsReturnError(e) == e = "return"

\* the sentinel's own ServeHTTP answers the request
HandlerErrorServeHTTP(rw, code) == Write(WriteHeader(rw, code), <<"sentinel">>)

----------------------------------------------------------------------------
(* bufferingTemplateHandler *)

\* buf.Reset()
BufReset(b) == <<>>

\* the per-request state a new request starts from (a fresh ResponseWriter, a
\* fresh dot); buf is the pooled buffer and keeps what the last request left
NewRequest(kind, r) ==
    /\ pc = "idle"
    /\ handler' = kind
    /\ req' = r
    /\ ctx' = [status |-> 200, header |-> NoHeader]
    /\ tx' = "none"
    /\ nCommit' = 0
    /\ nRollback' = 0
    /\ err' = "nil"
    /\ outcome' = "nil"
    /\ delegated' = 0

\* entry: take a buffer from bufPool, clear it, build the dot (status 200, no
\* header, no transaction) and call tmpl.Execute(buf, context)
BufferedStart(r) ==
    /\ NewRequest("buffered", r)
    /\ buf' = BufReset(buf)
    /\ w' = NewWriter
    /\ executed' = 1
    /\ pc' = "bexec"
    /\ UNCHANGED svars

\* mutant: a failed commit is treated as fatal instead of being logged
BufferedHandlerError_CommitFatal ==
    /\ pc = "bpost"
    /\ IsHandlerError(err)
    /\ \E commitOk \in BOOLEAN :
         LET r == resolvePendingTx(tx, "nil", commitOk)
         IN  /\ tx' = r.tx
             /\ nCommit' = nCommit + r.commits
             /\ nRollback' = nRollback + r.rollbacks
             /\ pc' = IF r.err # "nil" THEN "bfail" ELSE "bdelegate"
    /\ UNCHANGED <<handler, req, buf, ctx, err, outcome, executed, delegated, w, svars>>

\* err is a HandlerError: resolvePendingTx(nil), a failure is only logged
BufferedHandlerError ==
    /\ pc = "bpost"
    /\ IsHandlerError(err)
    /\ \E commitOk \in BOOLEAN :
         LET r == resolvePendingTx(tx, "nil", commitOk)
         IN  /\ tx' = r.tx
             /\ nCommit' = nCommit + r.commits
             /\ nRollback' = nRollback + r.rollbacks
    /\ pc' = "bdelegate"
    /\ UNCHANGED <<handler, req, buf, ctx, err, outcome, executed, delegated, w, svars>>

\* handlerErr.ServeHTTP(w, r); return
BufferedDelegate ==
    /\ pc = "bdelegate"
    /\ delegated' = delegated + 1
    /\ \E code \in {200, 302} : w' = HandlerErrorServeHTTP(w, code)
    /\ pc' = "done"
    /\ UNCHANGED <<handler, req, buf, ctx, tx, nCommit, nRollback, err, outcome,
                   executed, svars>>

\* a ReturnError becomes nil; err = context.resolvePendingTx(err)
BufferedResolve ==
    /\ pc = "bpost"
    /\ ~IsHandlerError(err)
    /\ \E commitOk \in BOOLEAN :
         LET e == IF IsReturnError(err) THEN "nil" ELSE err
             r == resolvePendingTx(tx, e, commitOk)
         IN  /\ tx' = r.tx
             /\ nCommit' = nCommit + r.commits
             /\ nRollback' = nRollback + r.rollbacks
             /\ err' = r.err
             /\ pc' = IF r.err # "nil" THEN "bfail" ELSE "bcopy"
    /\ UNCHANGED <<handler, req, buf, ctx, outcome, executed, delegated, w, svars>>

\* mutant: the return after http.Error is missing
BufferedFail_NoReturn ==
    /\ pc = "bfail"
    /\ w' = HttpError(w, "internal server error", 500)
    /\ pc' = "bcopy"
    /\ UNCHANGED <<handler, req, buf, ctx, tx, nCommit, nRollback, err, outcome,
                   executed, delegated, svars>>

\* http.Error(w, "internal server error", 500); return
BufferedFail ==
    /\ pc = "bfail"
    /\ w' = HttpError(w, "internal server error", 500)
    /\ pc' = "done"
    /\ UNCHANGED <<handler, req, buf, ctx, tx, nCommit, nRollback, err, outcome,
                   executed, delegated, svars>>

\* mutant: the status is written before the headers are copied
BufferedCopyHeaders_AfterWriteHeader ==
    /\ pc = "bcopy"
    /\ w' = [WriteHeader(w, ctx.status) EXCEPT !.header = MapsCopy(w.header, ctx.header)]
    /\ pc' = "bstatus"
    /\ UNCHANGED <<handler, req, buf, ctx, tx, nCommit, nRollback, err, outcome,
                   executed, delegated, svars>>

\* maps.Copy(w.Header(), context.Header)
BufferedCopyHeaders ==
    /\ pc = "bcopy"
    /\ w' = [w EXCEPT !.header = MapsCopy(w.header, ctx.header)]
    /\ pc' = "bstatus"
    /\ UNCHANGED <<handler, req, buf, ctx, tx, nCommit, nRollback, err, outcome,
                   executed, delegated, svars>>

\* w.WriteHeader(context.status)
BufferedWriteHeader ==
    /\ pc = "bstatus"
    /\ w' = WriteHeader(w, ctx.status)
    /\ pc' = "bbody"
    /\ UNCHANGED <<handler, req, buf, ctx, tx, nCommit, nRollback, err, outcome,
                   executed, delegated, svars>>

\* w.Write(buf.Bytes())
BufferedWriteBody ==
    /\ pc = "bbody"
    /\ w' = Write(w, buf)
    /\ pc' = "done"
    /\ UNCHANGED <<handler, req, buf, ctx, tx, nCommit, nRollback, err, outcome,
                   executed, delegated, svars>>

----------------------------------------------------------------------------
(* flushingTemplateHandler *)

\* mutant: a request without an Accept header is let through
NotEventStream_OnlyIfPresent(r) == r.accept \notin {"text/event-stream", ""}

\* r.Header.Get("Accept") != "text/event-stream"
NotEventStream(r) == r.accept # "text/event-stream"

\* the three headers of a server-sent-event response
SSEHeaders(h) ==
    HeaderSet(HeaderSet(HeaderSet(h, "Content-Type", "text/event-stream"),
                        "Cache-Control", "no-cache"),
              "Connection", "keep-alive")

\* mutant: the http.Flusher check comes before the Accept check
SSEStart_FlusherFirst(r) ==
    /\ NewRequest("sse", r)
    /\ buf' = buf
    /\ IF ~r.canFlush
       THEN /\ w' = HttpError(NewWriter, "internal server error", 500)
            /\ executed' = 0
            /\ pc' = "done"
       ELSE IF NotEventStream(r)
       THEN /\ w' = HttpError(NewWriter, "SSE endpoint", 406)
            /\ executed' = 0
            /\ pc' = "done"
       ELSE /\ w' = [NewWriter EXCEPT !.header = SSEHeaders(NewWriter.header)]
            /\ executed' = 1
            /\ pc' = "sexec"
    /\ UNCHANGED svars

\* entry: the Accept check, the http.Flusher check, the SSE headers, the dot,
\* and the call of tmpl.Execute(w, context)
SSEStart(r) ==
    /\ NewRequest("sse", r)
    /\ buf' = buf
    /\ IF NotEventStream(r)
       THEN /\ w' = HttpError(NewWriter, "SSE endpoint", 406)
            /\ executed' = 0
            /\ pc' = "done"
       ELSE IF ~r.canFlush
       THEN /\ w' = HttpError(NewWriter, "internal server error", 500)
            /\ executed' = 0
            /\ pc' = "done"
       ELSE /\ w' = [NewWriter EXCEPT !.header = SSEHeaders(NewWriter.header)]
            /\ executed' = 1
            /\ pc' = "sexec"
    /\ UNCHANGED svars

\* mutant: the HandlerError path forgets the pending transaction
SSEHandlerError_NoResolve ==
    /\ pc = "spost"
    /\ IsHandlerError(err)
    /\ pc' = "sdelegate"
    /\ UNCHANGED <<handler, req, buf, ctx, tx, nCommit, nRollback, err, outcome,
                   executed, delegated, w, svars>>

\* err is a HandlerError: resolvePendingTx(nil), a failure is only logged
SSEHandlerError ==
    /\ pc = "spost"
    /\ IsHandlerError(err)
    /\ \E commitOk \in BOOLEAN :
         LET r == resolvePendingTx(tx, "nil", commitOk)
         IN  /\ tx' = r.tx
             /\ nCommit' = nCommit + r.commits
             /\ nRollback' = nRollback + r.rollbacks
    /\ pc' = "sdelegate"
    /\ UNCHANGED <<handler, req, buf, ctx, err, outcome, executed, delegated, w, svars>>

\* handlerErr.ServeHTTP(w, r); return
SSEDelegate ==
    /\ pc = "sdelegate"
    /\ delegated' = delegated + 1
    /\ \E code \in {200, 302} : w' = HandlerErrorServeHTTP(w, code)
    /\ pc' = "done"
    /\ UNCHANGED <<handler, req, buf, ctx, tx, nCommit, nRollback, err, outcome,
                   executed, svars>>

\* a ReturnError becomes nil; err = context.resolvePendingTx(err); on an error
\* http.Error(w, "internal server error", 500)
SSEResolve ==
    /\ pc = "spost"
    /\ ~IsHandlerError(err)
    /\ \E commitOk \in BOOLEAN :
         LET e == IF IsReturnError(err) THEN "nil" ELSE err
             r == resolvePendingTx(tx, e, commitOk)
         IN  /\ tx' = r.tx
             /\ nCommit' = nCommit + r.commits
             /\ nRollback' = nRollback + r.rollbacks
             /\ err' = r.err
             /\ w' = IF r.err # "nil"
                     THEN HttpError(w, "internal server error", 500)
                     ELSE w
    /\ pc' = "done"
    /\ UNCHANGED <<handler, req, buf, ctx, outcome, executed, delegated, svars>>

\* the handler returns (the deferred bufPool.Put(buf) runs)
Return ==
    /\ pc = "done"
    /\ pc' = "idle"
    /\ UNCHANGED <<handler, req, buf, ctx, tx, nCommit, nRollback, err, outcome,
                   executed, delegated, w, svars>>

Requests == [accept : Accepts, canFlush : BOOLEAN]

Next ==
    \/ \E r \in Requests : BufferedStart(r)
    \/ \E r \in Requests : SSEStart(r)
    \/ \E b \in Bytes : TmplWrite(b)
    \/ TmplFlush
    \/ \E s \in Statuses : TmplSetStatus(s)
    \/ \E n \in TmplHeaders : TmplSetHeader(n)
    \/ TmplQuery
    \/ \E o \in Outcomes : TmplExit(o)
    \/ BufferedHandlerError
    \/ BufferedDelegate
    \/ BufferedResolve
    \/ BufferedFail
    \/ BufferedCopyHeaders
    \/ BufferedWriteHeader
    \/ BufferedWriteBody
    \/ SSEHandlerError
    \/ SSEDelegate
    \/ SSEResolve
    \/ Return

Spec == Init /\ [][Next]_vars

----------------------------------------------------------------------------
(* Static files: paths, bytes, hashes *)

\* largest file size on disk
MaxSize == 2

\* most encoding tokens in the Accept-Encoding header of a request
MaxTokens == 1

\* characters of the base64url text of a SHA-384 digest (48 bytes)
DigestLen == 64

\* the hash gate lets a request pass when at most this many characters of the
\* stored hash are left after the ?hash= value
GateMax == 31

\* A path is the sequence of its name and its extensions: a.txt.gz is
\* <<"a", ".txt", ".gz">>.  The files a template directory holds:
FileNames == {<<"a">>, <<"a", ".br">>, <<"a", ".gz">>, <<"a", ".txt">>}

\* byte order of the path tokens, as fs.WalkDir's lexical order compares them
TokenRank(t) ==
    CASE t = ".br" -> 1 [] t = ".gz" -> 2 [] t = ".html" -> 3 [] t = ".txt" -> 4
      [] t = ".zst" -> 5 [] t = ".h" -> 6 [] t = "a/" -> 7 [] t = "a" -> 8
      [] t = "b/" -> 9 [] t = "b" -> 10 [] t = "index" -> 11 [] OTHER -> 12

RECURSIVE LexLess(_, _)
LexLess(p, q) ==
    IF p = <<>> THEN q # <<>>
    ELSE IF q = <<>> THEN FALSE
    ELSE IF Head(p) # Head(q) THEN TokenRank(Head(p)) < TokenRank(Head(q))
    ELSE LexLess(Tail(p), Tail(q))

\* the order in which fs.WalkDir visits the files of a directory
RECURSIVE WalkOrder(_)
WalkOrder(S) ==
    IF S = {} THEN <<>>
    ELSE LET first == CHOOSE p \in S : \A q \in S \ {p} : LexLess(p, q)
         IN  <<first>> \o WalkOrder(S \ {first})

\* filepath.Ext(path_)
Ext(p) == IF Len(p) > 1 THEN p[Len(p)] ELSE ""

\* path.Clean("/" + path_)
Clean(p) == <<"/">> \o p

\* strings.TrimSuffix(s, ext)
TrimSuffix(s, ext) ==
    IF ext # "" /\ Len(s) > 0 /\ s[Len(s)] = ext THEN SubSeq(s, 1, Len(s) - 1) ELSE s

\* what a file holds: plain bytes, or the gzip / br / zstd encoding of plain
\* bytes, or bytes no decoder accepts
Contents == {"c1", "c2"}

Junk == [fmt |-> "junk", data |-> "c1"]

Plain(c) == [fmt |-> "plain", data |-> c]

DecodeError == [fmt |-> "error", data |-> ""]

\* the switch on ext: the encoding a suffix stands for
EncodingOf(ext) ==
    CASE ext = ".gz" -> "gzip" [] ext = ".zst" -> "zstd" [] ext = ".br" -> "br"
      [] OTHER -> "identity"

\* mutant: the decoders accept any bytes
Decode_NoError(encoding, raw) ==
    IF encoding = "identity" THEN raw ELSE Plain(raw.data)

\* gzip.NewReader / zstd.NewReader / brotli.NewReader followed by io.Copy: the
\* decoded bytes, or an error when the bytes are not in that encoding
Decode(encoding, raw) ==
    IF encoding = "identity" THEN raw
    ELSE IF raw.fmt = encoding THEN Plain(raw.data)
    ELSE DecodeError

\* the bytes a file of that name may hold
RawsFor(p) ==
    IF EncodingOf(Ext(p)) = "identity" THEN {Plain(c) : c \in Contents}
    ELSE {[fmt |-> EncodingOf(Ext(p)), data |-> c] : c \in Contents} \cup {Junk}

AllRaws == UNION {RawsFor(p) : p \in FileNames}

\* "sha384-" + base64.URLEncoding.EncodeToString(hash.Sum(nil)): 7 + 64
\* characters; the digest characters stand for the bytes hashed (no collisions)
SriChar(c) == [fmt |-> "sri", data |-> c]

Sri(bytes) ==
    <<SriChar("s"), SriChar("h"), SriChar("a"), SriChar("3"), SriChar("8"),
      SriChar("4"), SriChar("-")>> \o [i \in 1..DigestLen |-> bytes]

\* var extensionContentTypes
extensionContentTypes ==
    [e \in {".css", ".js", ".csv"} |->
        CASE e = ".css" -> "text/css; charset=utf-8"
          [] e = ".js" -> "text/javascript; charset=utf-8"
          [] OTHER -> "text/csv"]

\* the trees of static files a build may find
FileRecs == [raw : AllRaws, size : 1..MaxSize, mtime : {0}]

Trees ==
    UNION {{f \in [S -> FileRecs] : \A p \in S : f[p].raw \in RawsFor(p)} :
           S \in SUBSET FileNames}

----------------------------------------------------------------------------
(* addStaticFileHandler *)

\* mutant: the companion's hash is never compared
HashMismatch_Never(file, sri) == FALSE

\* file.hash != sri
HashMismatch(file, sri) == file.hash # sri

\* append + sort.Slice by size; the slice holds at most four variants, which
\* sort.Slice orders by insertion, so equal sizes keep their order
RECURSIVE InsertBySize(_, _)
InsertBySize(encodings, e) ==
    IF encodings = <<>> THEN <<e>>
    ELSE LET last == encodings[Len(encodings)]
         IN  IF last.size <= e.size THEN Append(encodings, e)
             ELSE Append(InsertBySize(SubSeq(encodings, 1, Len(encodings) - 1), e), last)

\* the pattern of a static file's route
GetPattern(basepath) == [method |-> "GET", path |-> basepath]

\* ServeMux.HandleFunc panics on a pattern that is registered already
Conflicts(rts, handlerPath) == handlerPath \in DOMAIN rts

\* x.addHandler(handlerPath, handler) on a pattern the router accepts
addHandler(rts, handlerPath, handler_) ==
    [p \in DOMAIN rts \cup {handlerPath} |-> IF p = handlerPath THEN handler_ ELSE rts[p]]

\* serveFileHandler
NoTemplate == [name |-> <<>>, file |-> <<>>]

StaticHandler == [kind |-> "static", tmpl |-> NoTemplate]

\* the zero fileInfo a map read gives for a key it does not hold
ZeroFileInfo == [hash |-> <<>>, contentType |-> "", encodings |-> <<>>]

\* mutant: every file is taken for a companion of a known identity
Exists_Always(fls, basepath) == TRUE

\* file, exists := x.files[basepath]
Exists(fls, basepath) == basepath \in DOMAIN fls

\* one call addStaticFileHandler(path_): the outcome ("ok", "error": a returned
\* error, "panic": ServeMux.HandleFunc refusing a pattern registered before)
\* and x.files and the router's patterns after it
addStaticFileHandler(path_, fs, fls, rts) ==
    LET f == fs[path_]
        ext == Ext(path_)
        trimmed == TrimSuffix(Clean(path_), ext)
        exists == Exists(fls, trimmed)
        file_ == IF trimmed \in DOMAIN fls THEN fls[trimmed] ELSE ZeroFileInfo
        encoding == IF exists THEN EncodingOf(ext) ELSE "identity"
        basepath == IF exists THEN trimmed ELSE Clean(path_)
        decoded == Decode(encoding, f.raw)
        sri == Sri(decoded)
        variant == [encoding |-> encoding, path |-> path_, size |-> f.size,
                    modtime |-> f.mtime]
        fail(how) == [result |-> how, files |-> fls, routes |-> rts]
        put(file, r) ==
            [result |-> "ok",
             files |-> [b \in DOMAIN fls \cup {basepath} |->
                           IF b = basepath THEN file ELSE fls[b]],
             routes |-> r]
    IN  IF decoded = DecodeError THEN fail("error")
        ELSE IF encoding = "identity"
        THEN IF Conflicts(rts, GetPattern(basepath)) THEN fail("panic")
             ELSE put([hash |-> sri,
                       contentType |-> IF ext \in DOMAIN extensionContentTypes
                                       THEN extensionContentTypes[ext]
                                       ELSE "sniffed",
                       encodings |-> <<variant>>],
                      addHandler(rts, GetPattern(basepath), StaticHandler))
        ELSE IF HashMismatch(file_, sri) THEN fail("error")
        ELSE put([file_ EXCEPT !.encodings = InsertBySize(@, variant)], rts)

----------------------------------------------------------------------------
(* addTemplateHandler *)

\* most files in a tree of template files
MaxFiles == 2

\* most {{define}} blocks in one template file
MaxDefs == 1

\* x.templateExtension
templateExtension == ".html"

\* The template files a directory may hold.  A path is the sequence of its
\* directories (each with its slash), its name and its extension: a/b/index.html
\* is <<"a/", "b/", "index", ".html">>.
TemplateNames ==
    {<<"index", ".html">>, <<"a", ".html">>, <<"a/", "index", ".html">>,
     <<"a/", "b", ".html">>, <<"a/", "b/", "index", ".html">>, <<".h", ".html">>}

\* static files next to them
StaticNames == {<<"a">>, <<"a", ".gz">>}

\* the bytes the static files may hold
StaticRaws(p) ==
    IF p = <<"a">> THEN {Plain("c1")} ELSE {[fmt |-> "gzip", data |-> "c1"], Junk}

\* a directory token without its slash
NoSlash(t) == CASE t = "a/" -> "a" [] t = "b/" -> "b" [] OTHER -> t

\* the token is a directory (it ends with a slash)
IsDirToken(t) == t \in {"/", "a/", "b/"}

\* the names of the {{define}} blocks a file may hold; a name is the sequence of
\* its method, the space and its path
DefNames ==
    {<<"GET", " ", "/", "a">>, <<"POST", " ", "/", "a">>, <<"SSE", " ", "/", "a">>,
     <<"HEAD", " ", "/", "a">>, <<"INIT", " ", "x">>}

\* the content of a template file that parse.Parse rejects
ParseError == [fmt |-> "noparse", data |-> {}]

\* fs.ReadFile of a template file: the names of its {{define}} blocks
TemplateRaws ==
    {[fmt |-> "template", data |-> D] :
        D \in {E \in SUBSET DefNames : Cardinality(E) <= MaxDefs}} \cup {ParseError}

\* a name cannot be a file and a directory
NameClash(S) ==
    \E p \in S, q \in S : Len(p) = 1 /\ Len(q) > 1 /\ q[1] # NoSlash(q[1])
                          /\ NoSlash(q[1]) = p[1]

\* the trees of template files (and a static file) a build may find
TemplateTrees ==
    UNION {{f \in [S -> [raw : TemplateRaws \cup UNION {StaticRaws(p) : p \in StaticNames},
                          size : {1}, mtime : {0}]] :
              \A p \in S : IF p \in StaticNames THEN f[p].raw \in StaticRaws(p)
                           ELSE f[p].raw \in TemplateRaws} :
           S \in {T \in SUBSET (TemplateNames \cup StaticNames) :
                    Cardinality(T) <= MaxFiles /\ ~NameClash(T)}}

\* parse.Parse(path_, content, ...): the names of the trees of the file, its own
\* (the cleaned path) and one for each {{define}}
Parse(path_, raw) == {path_} \cup raw.data

\* mutant: no file is taken for hidden
IsHidden_Never(path_) == FALSE

\* _, file := filepath.Split(path_); len(file) > 0 && file[0] == '.'
IsHidden(path_) == path_[Len(path_) - 1] \in {".h"}

\* path.Base(routePath)
Base(routePath) == routePath[Len(routePath)]

\* mutant: the directory keeps its trailing slash
Dir_KeepSlash(routePath) == SubSeq(routePath, 1, Len(routePath) - 1)

\* path.Dir(routePath): the path without its last element and without the slash
\* before it, the root keeping its slash
Dir(routePath) ==
    LET d == SubSeq(routePath, 1, Len(routePath) - 1)
    IN  IF Len(d) <= 1 THEN d ELSE [d EXCEPT ![Len(d)] = NoSlash(@)]

\* strings.HasSuffix(routePath, "/")
HasSlashSuffix(routePath) == IsDirToken(routePath[Len(routePath)])

\* the route of a template file: the extension stripped, index standing for its
\* directory, {$} after a final slash
FileRoutePath(path_) ==
    LET stripped == TrimSuffix(path_, templateExtension)
        routePath == IF Base(stripped) = "index" THEN Dir(stripped) ELSE stripped
    IN  IF HasSlashSuffix(routePath) THEN Append(routePath, "{$}") ELSE routePath

\* routeMatcher: ^(GET|POST|PUT|PATCH|DELETE|SSE) (.*)$
routeMatcher(name) ==
    IF Len(name) >= 2 /\ name[1] \in {"GET", "POST", "PUT", "PATCH", "DELETE", "SSE"}
                      /\ name[2] = " "
    THEN <<name, name[1], SubSeq(name, 3, Len(name))>>
    ELSE <<>>

\* bufferedTemplateHandler(tmpl)
BufferedHandler(tmpl) == [kind |-> "buffered", tmpl |-> tmpl]

\* mutant: an SSE definition is bound to the buffered handler
SSEHandler_Buffered(tmpl) == [kind |-> "buffered", tmpl |-> tmpl]

\* sseTemplateHandler(tmpl)
SSEHandler(tmpl) == [kind |-> "sse", tmpl |-> tmpl]

\* the route one tree of a file asks for: none, or a pattern and its handler
RouteOf(name, path_) ==
    LET tmpl == [name |-> name, file |-> path_]
        matches == routeMatcher(name)
    IN  IF name = path_
        THEN IF IsHidden(path_) THEN <<>>
             ELSE <<[method |-> "GET", path |-> FileRoutePath(path_)],
                    BufferedHandler(tmpl)>>
        ELSE IF Len(matches) = 3
        THEN IF matches[2] = "SSE"
             THEN <<[method |-> "GET", path |-> matches[3]], SSEHandler(tmpl)>>
             ELSE <<[method |-> matches[2], path |-> matches[3]], BufferedHandler(tmpl)>>
        ELSE <<>>

\* one round of the loop over the trees of the file, which Go visits in no
\* fixed order: the tree is added to x.templates (over a tree of that name, if
\* any) and its route, if it asks for one, is registered
AddTemplate(name) ==
    /\ build = "scanning"
    /\ name \in pending.names
    /\ templates' = [n \in DOMAIN templates \cup {name} |->
                        IF n = name THEN pending.file ELSE templates[n]]
    /\ LET route == RouteOf(name, pending.file)
       IN  IF route # <<>> /\ Conflicts(routes, route[1])
           THEN /\ build' = "panic"
                /\ UNCHANGED <<routes, pending>>
           ELSE /\ routes' = IF route = <<>> THEN routes
                             ELSE addHandler(routes, route[1], route[2])
                /\ pending' = IF pending.names = {name} THEN NoPending
                              ELSE [pending EXCEPT !.names = @ \ {name}]
                /\ UNCHANGED build
    /\ UNCHANGED <<disk, queue, files, resp, inits, hvars, nvars, xvars>>

\* fs.WalkDir's callback on the next file
BuildStep ==
    /\ build = "scanning"
    /\ queue # <<>>
    /\ pending = NoPending
    /\ IF Ext(Head(queue)) = templateExtension
       THEN IF disk[Head(queue)].raw = ParseError
            THEN /\ build' = "error"
                 /\ UNCHANGED <<queue, files, routes, tvars>>
            ELSE /\ pending' = [file |-> Clean(Head(queue)),
                                names |-> Parse(Clean(Head(queue)), disk[Head(queue)].raw)]
                 /\ queue' = Tail(queue)
                 /\ UNCHANGED <<files, routes, build, templates, inits>>
       ELSE LET r == addStaticFileHandler(Head(queue), disk, files, routes)
            IN  /\ files' = r.files
                /\ routes' = r.routes
                /\ build' = IF r.result = "ok" THEN "scanning" ELSE r.result
                /\ queue' = IF r.result = "ok" THEN Tail(queue) ELSE queue
                /\ UNCHANGED tvars
    /\ UNCHANGED <<disk, resp, hvars, nvars, xvars>>

\* mutant: no template is taken for an initializer
IsInit_Never(name) == FALSE

\* strings.HasPrefix(tmpl.Name(), "INIT ")
IsInit(name) == Len(name) >= 2 /\ name[1] = "INIT" /\ name[2] = " "

\* the outcomes of executing an initializer
InitOutcomes == {"nil", "return", "other"}

\* one round of the loop over x.templates.Templates(), which Go returns in no
\* fixed order, on a template named "INIT ...": the dot is made (valueOk), the
\* template is executed into io.Discard, where it may open a transaction, and
\* the pending transaction is resolved with the error of the execution; any
\* error ends the build
InitTemplate(name, valueOk, opened, e, commitOk) ==
    /\ build = "scanning"
    /\ queue = <<>>
    /\ pending = NoPending
    /\ name \in DOMAIN templates
    /\ IsInit(name)
    /\ name \notin DOMAIN inits
    /\ IF ~valueOk
       THEN /\ build' = "error"
            /\ UNCHANGED inits
       ELSE LET r == resolvePendingTx(opened, e, commitOk)
            IN  /\ inits' = [n \in DOMAIN inits \cup {name} |->
                                IF n = name
                                THEN [runs |-> 1, outcome |-> e, opened |-> opened,
                                      tx |-> r.tx, err |-> r.err]
                                ELSE inits[n]]
                /\ build' = IF r.err = "nil" THEN build ELSE "error"
    /\ UNCHANGED <<disk, queue, files, routes, resp, templates, pending, hvars, nvars, xvars>>

\* the walk and the initializers are over: Build returns the instance
BuildFinish ==
    /\ build = "scanning"
    /\ queue = <<>>
    /\ pending = NoPending
    /\ \A name \in DOMAIN templates : IsInit(name) => name \in DOMAIN inits
    /\ build' = "ok"
    /\ UNCHANGED <<disk, queue, files, routes, resp, hvars, tvars, nvars, xvars>>

InitTmpl ==
    /\ HandlerIdle
    /\ disk \in TemplateTrees
    /\ queue = WalkOrder(DOMAIN disk)
    /\ files = NoFile
    /\ routes = NoFile
    /\ build = "scanning"
    /\ resp = NoResp
    /\ templates = NoFile
    /\ pending = NoPending
    /\ inits = NoFile
    /\ neg = NoCall
    /\ OthersOff

NextTmpl ==
    \/ BuildStep
    \/ \E name \in pending.names : AddTemplate(name)
    \/ \E name \in DOMAIN templates, valueOk \in BOOLEAN, opened \in {"none", "open"},
          e \in InitOutcomes, commitOk \in BOOLEAN :
            InitTemplate(name, valueOk, opened, e, commitOk)
    \/ BuildFinish

SpecTmpl == InitTmpl /\ [][NextTmpl]_vars

----------------------------------------------------------------------------
(* negiotiateEncoding *)

\* an Accept-Encoding header is the sequence of its tokens, "gzip;q=0.5" being
\* [enc |-> "gzip", hasQ |-> TRUE, q |-> 5]: q-values count tenths
QValues == {0, 10}

Tokens ==
    [enc : {"gzip", "br", "identity"}, hasQ : {TRUE}, q : QValues]
    \cup [enc : {"gzip", "br", "identity"}, hasQ : {FALSE}, q : {0}]

RECURSIVE SeqsUpTo(_, _)
SeqsUpTo(S, n) ==
    IF n = 0 THEN {<<>>}
    ELSE LET shorter == SeqsUpTo(S, n - 1)
         IN  shorter \cup {Append(h, t) : h \in {x \in shorter : Len(x) = n - 1}, t \in S}

AcceptEncodings == SeqsUpTo(Tokens, MaxTokens)

\* the first index of the variant with that encoding name, 0 when there is none
IndexOf(encodings, name) ==
    IF \E i \in DOMAIN encodings : encodings[i].encoding = name
    THEN CHOOSE i \in DOMAIN encodings :
            /\ encodings[i].encoding = name
            /\ \A j \in 1..(i - 1) : encodings[j].encoding # name
    ELSE 0

\* the q of a token: 1.0 unless a q= parameter parses
QOf(token) == IF token.hasQ THEN token.q ELSE 10

Abs(x) == IF x < 0 THEN -x ELSE x

\* mutant: the q-values are ignored, the earlier variant is preferred
Prefer_IndexOnly(q, maxq, requestedIdx, maxqIdx) == requestedIdx < maxqIdx

\* mutant: only a strong preference changes the selection
Prefer_StrongOnly(q, maxq, requestedIdx, maxqIdx) == q - maxq > 1

\* q-maxq > 0.1 || (math.Abs(q-maxq) <= 0.1 && requestedIdx < maxqIdx)
Prefer(q, maxq, requestedIdx, maxqIdx) ==
    q - maxq > 1 \/ (Abs(q - maxq) <= 1 /\ requestedIdx < maxqIdx)

\* mutant: the selection starts at the smallest variant
DefaultIdx_Smallest(encodings) == 1

\* the selection before the header is read: the identity variant, or the last
\* variant when there is no identity
DefaultIdx(encodings) ==
    IF IndexOf(encodings, "identity") = 0 THEN Len(encodings)
    ELSE IndexOf(encodings, "identity")

\* the loop over the requested encodings
RECURSIVE NegotiateLoop(_, _, _, _)
NegotiateLoop(tokens, encodings, maxq, maxqIdx) ==
    IF tokens = <<>> THEN maxqIdx
    ELSE LET requestedIdx == IndexOf(encodings, Head(tokens).enc)
             q == QOf(Head(tokens))
         IN  IF requestedIdx = 0
             THEN NegotiateLoop(Tail(tokens), encodings, maxq, maxqIdx)
             ELSE IF Prefer(q, maxq, requestedIdx, maxqIdx)
             THEN NegotiateLoop(Tail(tokens), encodings, q, requestedIdx)
             ELSE NegotiateLoop(Tail(tokens), encodings, maxq, maxqIdx)

\* negiotiateEncoding(acceptHeaders, encodings): the index of the variant
\* chosen (0 for nil) and whether an error came with it
negiotiateEncoding(acceptHeaders, encodings) ==
    IF Len(encodings) = 0 THEN [idx |-> 0, err |-> TRUE]
    ELSE IF Len(encodings) = 1
    THEN [idx |-> 1, err |-> encodings[1].encoding # "identity"]
    ELSE [idx |-> NegotiateLoop(acceptHeaders, encodings, 0, DefaultIdx(encodings)),
          err |-> IndexOf(encodings, "identity") = 0]

----------------------------------------------------------------------------
(* negiotiateEncoding, called on the variants of a built file *)

\* most tokens in the Accept-Encoding header of a call
MaxNegTokens == 3

\* q-values of the tokens, in tenths: 0, 0.1, 0.5 and 1.0 (1.0 is the default
\* of a token without q as well); on these values the float64 differences the
\* code compares with 0.1 are exact
NegQValues == {0, 1, 5, 10}

NegTokens ==
    [enc : {"gzip", "br", "identity"}, hasQ : {TRUE}, q : NegQValues]
    \cup [enc : {"gzip", "br", "identity"}, hasQ : {FALSE}, q : {0}]

NegHeaders == SeqsUpTo(NegTokens, MaxNegTokens)

\* the encodingInfo of a file of the entry /a
Variant(encoding, ext, size) ==
    [encoding |-> encoding, path |-> <<"a">> \o ext, size |-> size, modtime |-> 0]

\* the variant lists addStaticFileHandler builds for a, a.br, a.gz: the identity
\* first, each companion appended and the list sorted by size
VariantLists ==
    LET ids == {<<Variant("identity", <<>>, i)>> : i \in 1..MaxSize}
        withBr == {InsertBySize(l, Variant("br", <<".br">>, b)) :
                      l \in ids, b \in 1..MaxSize}
        withGz == {InsertBySize(l, Variant("gzip", <<".gz">>, g)) :
                      l \in ids \cup withBr, g \in 1..MaxSize}
    IN  ids \cup withBr \cup withGz

\* encoding, err := negiotiateEncoding(r.Header["Accept-Encoding"], fileinfo.encodings)
Negotiate ==
    /\ ~neg.returned
    /\ LET n == negiotiateEncoding(neg.acceptHeaders, neg.encodings)
       IN  neg' = [neg EXCEPT !.idx = n.idx, !.err = n.err, !.returned = TRUE]
    /\ UNCHANGED <<disk, queue, files, routes, build, resp, hvars, tvars, xvars>>

InitNeg ==
    /\ HandlerIdle
    /\ disk = NoFile
    /\ queue = <<>>
    /\ files = NoFile
    /\ routes = NoFile
    /\ build = "off"
    /\ resp = NoResp
    /\ templates = NoFile
    /\ pending = NoPending
    /\ inits = NoFile
    /\ neg \in [encodings : VariantLists, acceptHeaders : NegHeaders, idx : {0},
                err : {FALSE}, returned : {FALSE}]
    /\ OthersOff

NextNeg == Negotiate

SpecNeg == InitNeg /\ [][NextNeg]_vars

----------------------------------------------------------------------------
(* staticFileHandler *)

\* strings.HasPrefix(s, prefix)
HasPrefix(s, prefix) ==
    Len(prefix) <= Len(s) /\ SubSeq(s, 1, Len(prefix)) = prefix

\* strings.TrimPrefix(s, prefix)
TrimPrefix(s, prefix) ==
    IF HasPrefix(s, prefix) THEN SubSeq(s, Len(prefix) + 1, Len(s)) ELSE s

\* mutant: the threshold is off by one
GateRejects_OffByOne(hash, queryhash) ==
    queryhash # <<>> /\ Len(TrimPrefix(hash, queryhash)) > GateMax + 1

\* queryhash != "" && len(strings.TrimPrefix(fileinfo.hash, queryhash)) > 31
GateRejects(hash, queryhash) ==
    queryhash # <<>> /\ Len(TrimPrefix(hash, queryhash)) > GateMax

\* `"` + fileinfo.hash + `"`
Etag(hash) == <<SriChar("\"")>> \o hash \o <<SriChar("\"")>>

\* the ?hash= values a client may send for a file with that hash: every prefix
\* of it, the hash with a character added, and values that are no prefix of it
\* (the beginning, the first 40 characters and the whole of another hash)
QueriesFor(hash) ==
    {SubSeq(hash, 1, n) : n \in 0..Len(hash)}
    \cup {Append(hash, SriChar("x"))}
    \cup {SubSeq(Sri(NoBytes), 1, n) : n \in {8, 40, Len(hash)}}

\* mutant: every response is labelled identity
ContentEncoding_Identity(encoding) == "identity"

\* the Content-Encoding header of the response
ContentEncoding(encoding) == encoding.encoding

Missing == [raw |-> NoBytes, size |-> 0, mtime |-> 0]

\* what server.Template.FS.Open(path) finds at request time: the file as it was
\* when the build hashed it, a file written since (other bytes or the same, a
\* later modtime), or no file
FileNow(path) ==
    {disk[path], Missing}
    \cup {[raw |-> r, size |-> disk[path].size, mtime |-> 1] : r \in RawsFor(path)}

\* a path segment that ServeMux reads as a wildcard
IsWildcard(t) == t = "{x}"

\* ServeMux: the pattern matches the path of the request; the wildcard stands
\* for one whole segment
Matches(pattern, urlpath) ==
    \/ pattern.path = urlpath
    \/ /\ Len(pattern.path) = 2
       /\ IsWildcard(pattern.path[2])
       /\ \A i \in 2..Len(urlpath) : ~IsDirToken(urlpath[i])

\* router.Handler(r): the most specific of the patterns that match, a literal
\* one before one with a wildcard
MuxHandler(rts, urlpath) ==
    IF GetPattern(urlpath) \in DOMAIN rts THEN {GetPattern(urlpath)}
    ELSE {pattern \in DOMAIN rts : Matches(pattern, urlpath)}

\* the paths clients ask for: those of the routes and one of no file
RequestPaths == {pattern.path : pattern \in DOMAIN routes} \cup {<<"/", "zz">>}

\* the request is routed to the static file handler: the lookup in server.files
\* and the ?hash= gate
StaticGate(pattern, urlpath, queryhash) ==
    /\ build = "ok"
    /\ resp.stage = "idle"
    /\ pattern \in MuxHandler(routes, urlpath)
    /\ routes[pattern].kind = "static"
    /\ IF urlpath \notin DOMAIN files
       THEN resp' = [NoResp EXCEPT !.stage = "done", !.status = 404,
                                   !.path = urlpath, !.query = queryhash]
       ELSE IF GateRejects(files[urlpath].hash, queryhash)
       THEN resp' = [NoResp EXCEPT !.stage = "done", !.status = 404,
                                   !.path = urlpath, !.query = queryhash,
                                   !.hasQuery = TRUE]
       ELSE resp' = [NoResp EXCEPT !.stage = "gate", !.path = urlpath,
                                   !.query = queryhash,
                                   !.hasQuery = (queryhash # <<>>)]
    /\ UNCHANGED <<disk, queue, files, routes, build, hvars, tvars, nvars, xvars>>

\* past the gate the handler only asks whether a ?hash= value was given
StaticHashOk ==
    /\ resp.stage = "gate"
    /\ resp' = [resp EXCEPT !.stage = "negotiate", !.query = <<>>]
    /\ UNCHANGED <<disk, queue, files, routes, build, hvars, tvars, nvars, xvars>>

\* the negotiation of the encoding; no variant at all is a 500
StaticNegotiate(acceptHeaders) ==
    /\ resp.stage = "negotiate"
    /\ LET n == negiotiateEncoding(acceptHeaders, files[resp.path].encodings)
       IN  resp' = IF n.idx = 0
                   THEN [resp EXCEPT !.stage = "done", !.status = 500, !.negErr = n.err]
                   ELSE [resp EXCEPT !.stage = "open", !.variant = n.idx, !.negErr = n.err]
    /\ UNCHANGED <<disk, queue, files, routes, build, hvars, tvars, nvars, xvars>>

\* the file's opening (a failure is a 500), the modtime check (a warning), the
\* response headers and http.ServeContent of a plain GET
StaticServe ==
    /\ resp.stage = "open"
    /\ LET fileinfo == files[resp.path]
           encoding == fileinfo.encodings[resp.variant]
       IN  \E cur \in FileNow(encoding.path) :
             IF cur = Missing
             THEN resp' = [resp EXCEPT !.stage = "done", !.status = 500,
                                       !.file = encoding.path]
             ELSE resp' = [resp EXCEPT
                      !.stage = "done",
                      !.status = 200,
                      !.etag = Etag(fileinfo.hash),
                      !.contentType = fileinfo.contentType,
                      !.encoding = ContentEncoding(encoding),
                      !.vary = "Accept-Encoding",
                      !.cacheControl = IF resp.hasQuery
                                       THEN "public, max-age=31536000"
                                       ELSE "",
                      !.file = encoding.path,
                      !.body = cur.raw,
                      !.warned = (cur.mtime # encoding.modtime)]
    /\ UNCHANGED <<disk, queue, files, routes, build, hvars, tvars, nvars, xvars>>

\* the handler returns; the next request finds a fresh response
StaticReturn ==
    /\ resp.stage = "done"
    /\ resp' = NoResp
    /\ UNCHANGED <<disk, queue, files, routes, build, hvars, tvars, nvars, xvars>>

InitStatic ==
    /\ HandlerIdle
    /\ disk \in Trees
    /\ queue = WalkOrder(DOMAIN disk)
    /\ files = NoFile
    /\ routes = NoFile
    /\ build = "scanning"
    /\ resp = NoResp
    /\ templates = NoFile
    /\ pending = NoPending
    /\ inits = NoFile
    /\ neg = NoCall
    /\ OthersOff

NextStatic ==
    \/ BuildStep
    \/ BuildFinish
    \/ \E pattern \in DOMAIN routes, urlpath \in RequestPaths :
         \E q \in QueriesFor(IF urlpath \in DOMAIN files
                             THEN files[urlpath].hash ELSE <<>>) :
            StaticGate(pattern, urlpath, q)
    \/ StaticHashOk
    \/ \E h \in AcceptEncodings : StaticNegotiate(h)
    \/ StaticServe
    \/ StaticReturn

SpecStatic == InitStatic /\ [][NextStatic]_vars

----------------------------------------------------------------------------
(* Claims about the buffered and the streaming handler (checked under Spec) *)

\* the response http.Error(w, "internal server error", 500) leaves on an
\* untouched writer: nothing of the template in it
IsPlain500(rw) ==
    /\ rw.status = 500
    /\ rw.body = <<"internal server error">>
    /\ DOMAIN rw.sent = {"Content-Type", "X-Content-Type-Options"}
    /\ rw.sent["Content-Type"] = "text/plain; charset=utf-8"

\* the response of a template that completed: its headers, its status, its output
IsTemplateResponse(rw) ==
    /\ rw.status = ctx.status
    /\ rw.sent = ctx.header
    /\ rw.body = buf

\* C1: in the buffered handler, when Execute returns an error that is neither a
\* HandlerError nor a ReturnError, the pending transaction is rolled back (never
\* committed), the writer stays untouched until http.Error, and the response is
\* 500 "internal server error" with no template byte, status or header in it.
C1_FailedTemplateGives500 ==
    (handler = "buffered" /\ outcome = "other" /\ pc # "bexec") =>
        /\ pc \in {"bpost", "bfail", "done", "idle"}
        /\ nCommit = 0
        /\ pc = "bpost" => w = NewWriter
        /\ pc = "bfail" => w = NewWriter /\ tx \in {"none", "rolledback"}
        /\ pc \in {"done", "idle"} =>
              /\ tx \in {"none", "rolledback"}
              /\ tx = "rolledback" => nRollback = 1
              /\ IsPlain500(w)

C1_Witness ==
    /\ pc = "done" /\ handler = "buffered" /\ outcome = "other"
    /\ tx = "rolledback" /\ Len(buf) = MaxOut /\ ctx.status = 404
    /\ DOMAIN ctx.header = TmplHeaders /\ w.status = 500

\* C2: in the buffered handler, when the template completes without error, the
\* commit comes before any write to the response, then the dot's headers are
\* copied, then the stored status (200 unless SetStatus changed it) is written,
\* then the buffer; when the commit fails the response is the plain 500.
C2_CommitHeadersStatusBody ==
    (handler = "buffered" /\ outcome = "nil" /\ pc \notin {"bexec", "idle"}) =>
        /\ ctx.status \in Statuses \cup {200}
        /\ pc = "bpost" => w = NewWriter /\ nCommit = 0
        /\ pc # "bpost" => nRollback = 0 /\ tx # "open" /\ (tx # "none" => nCommit = 1)
        /\ pc = "bfail" => tx = "commitfailed" /\ w = NewWriter
        /\ pc \in {"bcopy", "bstatus", "bbody"} => tx \in {"none", "committed"}
        /\ pc = "bcopy" => w = NewWriter
        /\ pc = "bstatus" => w.header = ctx.header /\ w.status = 0 /\ w.body = <<>>
        /\ pc = "bbody" => w.sent = ctx.header /\ w.status = ctx.status /\ w.body = <<>>
        /\ pc = "done" => IF tx = "commitfailed" THEN IsPlain500(w)
                          ELSE IsTemplateResponse(w)

C2_Witness ==
    /\ pc = "done" /\ handler = "buffered" /\ outcome = "nil"
    /\ tx = "committed" /\ w.status = 201 /\ Len(w.body) = MaxOut
    /\ DOMAIN w.sent = TmplHeaders

\* C3: in the buffered handler, a template that exits with ReturnError ends as a
\* template that returned normally: a commit (no rollback), and the response
\* carries the headers and status set and the output buffered before the exit
\* (the plain 500 when the commit fails, as for a normal return).
C3_ReturnErrorIsSuccess ==
    (handler = "buffered" /\ outcome = "return" /\ pc \in {"done", "idle"}) =>
        /\ nRollback = 0
        /\ tx \in {"none", "committed", "commitfailed"}
        /\ tx # "none" => nCommit = 1
        /\ IF tx = "commitfailed" THEN IsPlain500(w) ELSE IsTemplateResponse(w)

C3_Witness ==
    /\ pc = "done" /\ handler = "buffered" /\ outcome = "return"
    /\ tx = "committed" /\ w.status = 404 /\ w.body = <<"x">>
    /\ DOMAIN w.sent = {"X-A"}

\* C4: in the buffered handler, when the template exits with a HandlerError the
\* transaction is finalized by a commit (never a rollback), a failed commit does
\* not stop the delegation, the sentinel's ServeHTTP is called exactly once, and
\* the executor writes no header, status or body: the writer is untouched when
\* the sentinel gets it and holds only the sentinel's response afterwards.
C4_HandlerErrorDelegates ==
    (handler = "buffered" /\ outcome = "handler" /\ pc # "bexec") =>
        /\ pc \in {"bpost", "bdelegate", "done", "idle"}
        /\ nRollback = 0
        /\ pc = "bpost" => w = NewWriter /\ delegated = 0
        /\ pc # "bpost" => tx \in {"none", "committed", "commitfailed"}
                           /\ (tx # "none" => nCommit = 1)
        /\ pc = "bdelegate" => w = NewWriter /\ delegated = 0
        /\ pc \in {"done", "idle"} =>
              /\ delegated = 1
              /\ w.sent = NoHeader
              /\ w.status \in {200, 302}
              /\ w.body = <<"sentinel">>

C4_Witness ==
    /\ pc = "done" /\ handler = "buffered" /\ outcome = "handler"
    /\ tx = "commitfailed" /\ delegated = 1 /\ Len(buf) = MaxOut
    /\ ctx.status = 201 /\ ctx.header # NoHeader

\* C5: on every exit path of the buffered and of the streaming handler taken
\* after the dot was created, a transaction the template opened is finalized
\* exactly once (one Commit or one Rollback, never both, never two, never left
\* open), and no Commit or Rollback happens when none was opened.
C5_TxFinalizedOnce ==
    /\ nCommit + nRollback <= 1
    /\ (pc \in {"done", "idle"} /\ executed = 1) =>
          /\ tx # "open"
          /\ nCommit + nRollback = (IF tx = "none" THEN 0 ELSE 1)
          /\ tx \in {"committed", "commitfailed"} => nCommit = 1
          /\ tx = "rolledback" => nRollback = 1

C5_Witness ==
    /\ pc = "done" /\ handler = "sse" /\ outcome = "handler"
    /\ tx = "committed" /\ nCommit = 1 /\ delegated = 1

\* C6: the streaming handler answers 406 to every request whose Accept header is
\* not text/event-stream; on that path the template is not executed, the SSE
\* headers are not set and no transaction is opened or finalized.
C6_NotAcceptable ==
    (handler = "sse" /\ req.accept # "text/event-stream") =>
        /\ pc \in {"done", "idle"}
        /\ w.status = 406
        /\ w.body = <<"SSE endpoint">>
        /\ executed = 0
        /\ tx = "none" /\ nCommit = 0 /\ nRollback = 0
        /\ "Cache-Control" \notin DOMAIN w.header
        /\ "Connection" \notin DOMAIN w.header
        /\ w.header["Content-Type"] # "text/event-stream"

C6_Witness ==
    /\ pc = "done" /\ handler = "sse" /\ req.accept = "" /\ req.canFlush
    /\ w.status = 406

\* the SSE headers are among the headers h
HasSSEHeaders(h) ==
    /\ {"Content-Type", "Cache-Control", "Connection"} \subseteq DOMAIN h
    /\ h["Content-Type"] = "text/event-stream"
    /\ h["Cache-Control"] = "no-cache"
    /\ h["Connection"] = "keep-alive"

\* C7: in the streaming handler the three SSE headers are set before the
\* template runs, so they are on the wire with its first byte; a writer that
\* cannot flush gets 500 and the template is not executed; the Accept check
\* comes before the flusher check.
C7_HeadersBeforeOutput ==
    handler = "sse" =>
        /\ pc = "sexec" => HasSSEHeaders(w.header) /\ executed = 1
        /\ (\E i \in DOMAIN w.body : w.body[i] \in Bytes) =>
              HasSSEHeaders(w.sent) /\ w.status = 200
        /\ (req.accept = "text/event-stream" /\ ~req.canFlush) =>
              /\ pc \in {"done", "idle"}
              /\ executed = 0
              /\ w.status = 500
              /\ ~HasSSEHeaders(w.header)
        /\ (req.accept # "text/event-stream" /\ ~req.canFlush) => w.status = 406

C7_Witness ==
    /\ pc = "sexec" /\ handler = "sse" /\ w.body = <<"y">>
    /\ req.accept = "text/event-stream" /\ req.canFlush

----------------------------------------------------------------------------
(* Static files: the build's hash check, the served bytes, the ?hash= gate *)

Compressed == {".gz", ".br", ".zst"}

\* a file with a compression suffix whose suffix-stripped path is a file too
IsCompanion(p) == Ext(p) \in Compressed /\ TrimSuffix(p, Ext(p)) \in DOMAIN disk

\* C8: a build succeeds only if every companion variant decodes to bytes whose
\* SHA-384 is the hash recorded for its identity file (a mismatch or a failed
\* decoding ends the build with an error); in a built instance every variant
\* listed under a static entry decodes to the entry's hash
C8_VariantsDecodeToEntryHash ==
    build = "ok" =>
        /\ \A b \in DOMAIN files : \A i \in DOMAIN files[b].encodings :
              LET e == files[b].encodings[i]
                  decoded == Decode(e.encoding, disk[e.path].raw)
              IN  decoded # DecodeError /\ Sri(decoded) = files[b].hash
        /\ \A p \in DOMAIN disk : IsCompanion(p) =>
              LET identity == TrimSuffix(p, Ext(p))
                  decoded == Decode(EncodingOf(Ext(p)), disk[p].raw)
              IN  /\ decoded # DecodeError
                  /\ Clean(identity) \in DOMAIN files
                  /\ files[Clean(identity)].hash = Sri(disk[identity].raw)
                  /\ Sri(decoded) = files[Clean(identity)].hash
                  /\ \E i \in DOMAIN files[Clean(identity)].encodings :
                        files[Clean(identity)].encodings[i].path = p

\* a built instance whose entry lists the identity file and two companions
C8_Witness ==
    /\ build = "ok"
    /\ \E b \in DOMAIN files :
          /\ Len(files[b].encodings) = 3
          /\ \E i \in DOMAIN files[b].encodings : files[b].encodings[i].encoding = "gzip"

\* the response is a complete 200 answer of the static handler
Served == resp.stage = "done" /\ resp.status = 200

\* the body, decoded by the response's Content-Encoding, has the digest of the Etag
BodyMatchesEtag ==
    LET decoded == Decode(resp.encoding, resp.body)
    IN  decoded # DecodeError
        /\ resp.etag = <<SriChar("\"")>> \o Sri(decoded) \o <<SriChar("\"")>>

\* C9 as stated: whatever is served, the body decoded by its Content-Encoding
\* has the SHA-384 digest of the response's Etag
C9_Original == Served => BodyMatchesEtag

\* C9: the Etag of a served response is always the hash recorded for the
\* identity file at build time, whichever variant was chosen; the body decoded
\* by its Content-Encoding has that digest when the file served still holds the
\* bytes the build hashed
C9_ServedBytesMatchEtag ==
    Served =>
        LET fileinfo == files[resp.path]
            identity == fileinfo.encodings[IndexOf(fileinfo.encodings, "identity")]
        IN  /\ IndexOf(fileinfo.encodings, "identity") # 0
            /\ resp.etag = <<SriChar("\"")>> \o Sri(disk[identity.path].raw)
                              \o <<SriChar("\"")>>
            /\ resp.body = disk[resp.file].raw => BodyMatchesEtag

\* a compressed variant served with the bytes the build hashed
C9_Witness ==
    /\ Served
    /\ resp.encoding = "gzip"
    /\ resp.body = disk[resp.file].raw
    /\ ~resp.warned

\* a served file that was written after the build, with other bytes
C9_ModifiedWitness ==
    /\ Served
    /\ resp.warned
    /\ resp.body # disk[resp.file].raw

\* p is a prefix of s
IsPrefixOf(p, s) == Len(p) <= Len(s) /\ \A i \in 1..Len(p) : p[i] = s[i]

\* the request went past the ?hash= gate
Permitted == resp.stage = "gate"

\* the ?hash= gate answered 404
Rejected == resp.stage = "done" /\ resp.status = 404 /\ resp.path \in DOMAIN files

\* C10 as stated: a non-empty ?hash= value is permitted only if it is a prefix
\* of the stored hash and at least 40 characters of the hash remain after it;
\* every other non-empty value gets 404; no ?hash= is never rejected
C10_Original ==
    LET hash == files[resp.path].hash
        strong == IsPrefixOf(resp.query, hash) /\ Len(hash) - Len(resp.query) >= 40
    IN  /\ Permitted /\ resp.query # <<>> => strong
        /\ Rejected => resp.query # <<>> /\ ~strong

\* C10: a non-empty ?hash= value is permitted exactly when it is a prefix of the
\* stored hash and at most 31 characters of the hash remain after it (the value
\* holds at least 40 of the hash's 71 characters); every other non-empty value
\* gets 404; a request without ?hash= is never rejected
C10_HashGate ==
    LET hash == files[resp.path].hash
        strong == IsPrefixOf(resp.query, hash) /\ Len(hash) - Len(resp.query) <= GateMax
    IN  /\ Permitted /\ resp.query # <<>> => strong
        /\ Rejected => resp.query # <<>> /\ ~strong

\* a request permitted with the shortest value the gate accepts
C10_Witness ==
    /\ Permitted
    /\ Len(resp.query) = Len(files[resp.path].hash) - GateMax

\* a request rejected with a prefix one character short
C10_RejectedWitness ==
    /\ Rejected
    /\ IsPrefixOf(resp.query, files[resp.path].hash)
    /\ Len(resp.query) = Len(files[resp.path].hash) - GateMax - 1

----------------------------------------------------------------------------
(* Static files: names with a compression suffix and no identity file *)

\* a file with a compression suffix whose suffix-stripped path is no file
IsOrphan(p) == Ext(p) \in Compressed /\ TrimSuffix(p, Ext(p)) \notin DOMAIN disk

\* C11 as stated: a tree that holds a file with a compression suffix and no
\* identity file at the suffix-stripped path never builds
C11_Original == (\E p \in DOMAIN disk : IsOrphan(p)) => build # "ok"

\* C11: a file with a compression suffix and no identity file at the
\* suffix-stripped path does not fail the build: it is recorded undecoded as an
\* identity entry of its own, under its full path, with the hash of its own
\* bytes and the route GET <full path>; the build returns an error only for a
\* companion of a file that exists
C11_OrphanIsOwnIdentity ==
    /\ build = "ok" =>
          \A p \in DOMAIN disk : IsOrphan(p) =>
              LET full == <<"/">> \o p
              IN  /\ full \in DOMAIN files
                  /\ files[full].hash = Sri(disk[p].raw)
                  /\ Len(files[full].encodings) = 1
                  /\ files[full].encodings[1].encoding = "identity"
                  /\ files[full].encodings[1].path = p
                  /\ [method |-> "GET", path |-> full] \in DOMAIN routes
    /\ build = "error" => \E p \in DOMAIN disk : IsCompanion(p)

\* a built instance whose tree holds an orphan no decoder accepts
C11_Witness ==
    /\ build = "ok"
    /\ \E p \in DOMAIN disk : IsOrphan(p) /\ disk[p].raw = Junk

----------------------------------------------------------------------------
(* Static files: names with an extension that is no compression suffix *)

\* the walk's call on file p has ended (returned, or panicked)
Walked(p) ==
    \/ \A i \in DOMAIN queue : queue[i] # p
    \/ build \in {"error", "panic"} /\ queue # <<>> /\ Head(queue) = p

\* C12 as stated: every static file whose name ends in no compression suffix is
\* recorded as an identity entry keyed by its own full cleaned path, with its
\* own hash and the route GET <full path>, whatever other files the tree holds
\* (a file at this path minus its last extension included, whose entry and hash
\* stay as they were)
C12_Original ==
    \A p \in DOMAIN disk : Ext(p) \notin Compressed /\ Walked(p) =>
        LET full == <<"/">> \o p
        IN  /\ full \in DOMAIN files
            /\ files[full].hash = Sri(disk[p].raw)
            /\ [method |-> "GET", path |-> full] \in DOMAIN routes
            /\ \A q \in DOMAIN disk : q = TrimSuffix(p, Ext(p)) /\ q # p =>
                  /\ <<"/">> \o q \in DOMAIN files
                  /\ files[<<"/">> \o q].hash = Sri(disk[q].raw)

----------------------------------------------------------------------------
(* Template files: the routes of a build *)

\* the tree holds template files only, none with a {{define}}
OnlyPlainTemplates ==
    \A p \in DOMAIN disk : Ext(p) = ".html" /\ disk[p].raw.data = {}

\* the basename of the file begins with a dot
HiddenFile(p) == Len(p) > 1 /\ p[Len(p) - 1] = ".h"

\* the patterns bound to the tree that carries the file's own name
FileRoutes(p) ==
    {pat \in DOMAIN routes :
        routes[pat].tmpl = [name |-> <<"/">> \o p, file |-> <<"/">> \o p]}

\* the route path the file's name stands for: the path without its extension,
\* or the directory of an index file (the root as /{$})
ExpectedPath(p) ==
    LET stripped == <<"/">> \o SubSeq(p, 1, Len(p) - 1)
        n == Len(stripped)
    IN  IF stripped[n] # "index" THEN stripped
        ELSE IF n = 2 THEN <<"/", "{$}">>
        ELSE SubSeq(stripped, 1, n - 2) \o <<NoSlash(stripped[n - 1])>>

\* C13 as stated: a tree of template files builds whatever names it holds, and
\* each file whose basename does not begin with a dot has exactly one GET route,
\* at its extension-stripped path or at its directory when it is an index file
C13_Original ==
    OnlyPlainTemplates =>
        /\ build # "panic"
        /\ build = "ok" =>
              \A p \in DOMAIN disk : ~HiddenFile(p) =>
                  /\ Cardinality(FileRoutes(p)) = 1
                  /\ \A pat \in FileRoutes(p) :
                        pat.method = "GET" /\ pat.path = ExpectedPath(p)

\* the loop of addTemplateHandler has added the file's own tree
FileAdded(p) ==
    /\ Ext(p) = ".html"
    /\ <<"/">> \o p \in DOMAIN templates
    /\ ~(pending.file = <<"/">> \o p /\ <<"/">> \o p \in pending.names)

\* an index file in a directory that is not the root
NestedIndex(p) == Len(p) > 2 /\ p[Len(p) - 1] = "index"

\* C14 as stated: an index file in a non-root directory is registered as
\* GET <dir>/{$} (a/b/index.html as GET /a/b/), any other file <p><ext> as GET <p>
C14_Original ==
    \A p \in DOMAIN disk : FileAdded(p) /\ ~HiddenFile(p) =>
        FileRoutes(p) =
            {[method |-> "GET",
              path |-> IF NestedIndex(p)
                       THEN <<"/">> \o SubSeq(p, 1, Len(p) - 2) \o <<"{$}">>
                       ELSE IF p[Len(p) - 1] = "index" THEN <<"/", "{$}">>
                       ELSE <<"/">> \o SubSeq(p, 1, Len(p) - 1)]}

\* C14: an index file in a non-root directory is registered as GET <dir>, with
\* no trailing slash and no {$} (a/b/index.html as GET /a/b); only the root's
\* index file is registered with a slash, as GET /{$}; any other file <p><ext>
\* is registered as GET <p> (a/b.html as GET /a/b)
C14_RouteDerivation ==
    /\ \A p \in DOMAIN disk : FileAdded(p) /\ ~HiddenFile(p) =>
          FileRoutes(p) = {[method |-> "GET", path |-> ExpectedPath(p)]}
    /\ \A pat \in DOMAIN routes :
          routes[pat].kind # "static" /\ routes[pat].tmpl.name = routes[pat].tmpl.file =>
              /\ pat.method = "GET"
              /\ pat.path = ExpectedPath(Tail(routes[pat].tmpl.file))

\* a/b/index.html has its route, GET /a/b
C14_Witness ==
    /\ FileAdded(<<"a/", "b/", "index", ".html">>)
    /\ [method |-> "GET", path |-> <<"/", "a/", "b">>] \in DOMAIN routes
    /\ build = "ok"

\* the loop of addTemplateHandler is over for the file
FileDone(p) ==
    /\ \A i \in DOMAIN queue : queue[i] # p
    /\ pending.file # <<"/">> \o p

\* the name of a {{define}} has the form of a route: a method or SSE, a space, a path
IsRouteName(name) ==
    /\ Len(name) >= 2
    /\ name[1] \in {"GET", "POST", "PUT", "PATCH", "DELETE", "SSE"}
    /\ name[2] = " "

\* C15: a template file whose basename begins with a dot is added to the shared
\* namespace under its path and gets no file route; the route-named
\* definitions inside it are registered as routes all the same
C15_HiddenFileNotRouted ==
    /\ \A p \in DOMAIN disk : HiddenFile(p) => FileRoutes(p) = {}
    /\ \A p \in DOMAIN disk : HiddenFile(p) /\ FileDone(p) =>
          /\ <<"/">> \o p \in DOMAIN templates
          /\ templates[<<"/">> \o p] = <<"/">> \o p
          /\ \A d \in disk[p].raw.data : IsRouteName(d) =>
                \E pat \in DOMAIN routes :
                    /\ routes[pat].tmpl = [name |-> d, file |-> <<"/">> \o p]
                    /\ pat.path = SubSeq(d, 3, Len(d))

\* a built instance with a hidden file whose GET /a definition is a route
C15_Witness ==
    /\ build = "ok"
    /\ \E p \in DOMAIN disk :
          /\ HiddenFile(p)
          /\ <<"GET", " ", "/", "a">> \in disk[p].raw.data
          /\ [method |-> "GET", path |-> <<"/", "a">>] \in DOMAIN routes
          /\ <<"/">> \o p \in DOMAIN templates

\* C16: every registered route is bound to the handler its origin gives: the
\* route of a template file and a GET|POST|PUT|PATCH|DELETE definition to the
\* buffered handler under that method, an SSE definition to the streaming
\* handler under GET, a static file to the static handler; a definition whose
\* name is neither the file's path nor of the form of a route has no route
C16_HandlerKindMatchesOrigin ==
    /\ \A pat \in DOMAIN routes :
          LET h == routes[pat]
              name == h.tmpl.name
          IN  \/ /\ h.kind = "static"
                 /\ pat.method = "GET"
                 /\ pat.path \in DOMAIN files
                 /\ h.tmpl.name = <<>>
              \/ /\ h.kind = "buffered"
                 /\ name = h.tmpl.file
                 /\ name \in DOMAIN templates
                 /\ pat.method = "GET"
              \/ /\ h.kind = "buffered"
                 /\ name # h.tmpl.file
                 /\ IsRouteName(name)
                 /\ name[1] # "SSE"
                 /\ pat = [method |-> name[1], path |-> SubSeq(name, 3, Len(name))]
              \/ /\ h.kind = "sse"
                 /\ name # h.tmpl.file
                 /\ IsRouteName(name)
                 /\ name[1] = "SSE"
                 /\ pat = [method |-> "GET", path |-> SubSeq(name, 3, Len(name))]
    /\ build = "ok" =>
          /\ \A b \in DOMAIN files :
                [method |-> "GET", path |-> b] \in DOMAIN routes
                /\ routes[[method |-> "GET", path |-> b]].kind = "static"
          /\ \A name \in DOMAIN templates : IsRouteName(name) =>
                \E pat \in DOMAIN routes :
                    /\ routes[pat].tmpl = [name |-> name, file |-> templates[name]]
                    /\ routes[pat].kind = IF name[1] = "SSE" THEN "sse" ELSE "buffered"

\* a built instance with a streaming route and a POST route
C16_Witness ==
    /\ build = "ok"
    /\ \E pat \in DOMAIN routes : routes[pat].kind = "sse"
    /\ \E pat \in DOMAIN routes : routes[pat].kind = "buffered" /\ pat.method = "POST"

\* C17 as stated: registering a pattern that is registered already is no error:
\* the build goes on, and every tree added that asks for a route has its
\* pattern bound to a handler
C17_Original ==
    /\ build # "panic"
    /\ \A name \in DOMAIN templates :
          ~(name \in pending.names) /\ RouteOf(name, templates[name]) # <<>> =>
              RouteOf(name, templates[name])[1] \in DOMAIN routes

\* the build ends in a panic on the second registration of GET /a, asked for by
\* an SSE definition after a GET definition
C17_DuplicatePanics ==
    /\ build = "panic"
    /\ pending.names # {}
    /\ \E name \in pending.names :
          /\ name = <<"SSE", " ", "/", "a">>
          /\ [method |-> "GET", path |-> <<"/", "a">>] \in DOMAIN routes
          /\ routes[[method |-> "GET", path |-> <<"/", "a">>]].tmpl.name
                = <<"GET", " ", "/", "a">>

----------------------------------------------------------------------------
(* Content negotiation *)

\* the q of the token at position j, in tenths (1.0 when it gives none)
TokenQ(j) ==
    IF neg.acceptHeaders[j].hasQ THEN neg.acceptHeaders[j].q ELSE 10

\* the positions of the header that name an encoding the file offers
NamedOffered ==
    {j \in DOMAIN neg.acceptHeaders :
        \E i \in DOMAIN neg.encodings :
            neg.encodings[i].encoding = neg.acceptHeaders[j].enc}

\* no offered encoding is named twice
NamedOnce ==
    \A j \in NamedOffered, k \in NamedOffered :
        neg.acceptHeaders[j].enc = neg.acceptHeaders[k].enc => j = k

\* the variant the call returned
Selected == neg.encodings[neg.idx]

\* C18: with each offered encoding named at most once, a named offered encoding
\* whose q is above 0.1 and above the q of every other named offered encoding
\* by more than 0.1 is selected, whatever the order of the tokens and the size
\* order of the variants
C18_ClearPreferenceWins ==
    neg.returned /\ NamedOnce =>
        \A j \in NamedOffered :
            (TokenQ(j) > 1 /\ \A k \in NamedOffered \ {j} : TokenQ(j) - TokenQ(k) > 1)
                => neg.idx # 0 /\ Selected.encoding = neg.acceptHeaders[j].enc

\* gzip;q=0, br;q=1 over {identity, gzip, br} with gzip the smallest variant
\* and br the largest: br is returned
C18_Witness ==
    /\ neg.returned
    /\ neg.acceptHeaders = <<[enc |-> "gzip", hasQ |-> TRUE, q |-> 0],
                             [enc |-> "br", hasQ |-> TRUE, q |-> 10]>>
    /\ Len(neg.encodings) = 3
    /\ neg.encodings[1].encoding = "gzip"
    /\ neg.encodings[3].encoding = "br"
    /\ Selected.encoding = "br"

\* C19: when every named offered encoding carries the same q, above 0.1, the
\* variant returned is a named one of the lowest index in the size-ascending
\* list, so none of the named variants is smaller, whatever the order of the
\* tokens
C19_TieGoesToSmallest ==
    (/\ neg.returned
     /\ NamedOffered # {}
     /\ \A j \in NamedOffered, k \in NamedOffered : TokenQ(j) = TokenQ(k)
     /\ \A j \in NamedOffered : TokenQ(j) > 1) =>
        /\ neg.idx # 0
        /\ \E j \in NamedOffered : neg.acceptHeaders[j].enc = Selected.encoding
        /\ \A j \in NamedOffered : \A i \in DOMAIN neg.encodings :
              neg.encodings[i].encoding = neg.acceptHeaders[j].enc =>
                  neg.idx <= i /\ Selected.size <= neg.encodings[i].size

\* identity, then gzip, both at q 0.5, with gzip the smaller of the two and br,
\* not named, listed before both: gzip is returned
C19_Witness ==
    /\ neg.returned
    /\ neg.acceptHeaders = <<[enc |-> "identity", hasQ |-> TRUE, q |-> 5],
                             [enc |-> "gzip", hasQ |-> TRUE, q |-> 5]>>
    /\ Len(neg.encodings) = 3
    /\ neg.encodings[1].encoding = "br"
    /\ neg.encodings[2].encoding = "gzip"
    /\ neg.encodings[2].size < neg.encodings[3].size
    /\ Selected.encoding = "gzip"

\* C20: the identity variant is returned when the header is absent or empty or
\* names no encoding the file offers; a file with one variant gets that
\* variant whatever the header says
C20_FallsBackToIdentity ==
    neg.returned =>
        /\ NamedOffered = {} => neg.idx # 0 /\ Selected.encoding = "identity"
        /\ Len(neg.encodings) = 1 => neg.idx = 1

\* a header that names only br, for a file with identity and a smaller gzip
C20_Witness ==
    /\ neg.returned
    /\ Len(neg.acceptHeaders) = 1
    /\ neg.acceptHeaders[1].enc = "br"
    /\ Len(neg.encodings) = 2
    /\ neg.encodings[1].encoding = "gzip"
    /\ Selected.encoding = "identity"


----------------------------------------------------------------------------
(* C21: the initializers *)

\* the name begins with "INIT "
BeginsWithInit(name) == SubSeq(name, 1, 2) = <<"INIT", " ">>

\* the scan is over: every file was loaded and its routes registered
ScanOver == queue = <<>> /\ pending = NoPending

\* the transaction the run opened was finalized with the outcome of the run
Finalized(run) ==
    IF run.opened = "open"
    THEN IF run.outcome = "nil" THEN run.tx \in {"committed", "commitfailed"}
         ELSE run.tx = "rolledback" /\ run.err = run.outcome
    ELSE run.tx = "none" /\ run.err = run.outcome

\* an initializer failed, in its execution or in its commit
InitFailed == \E n \in DOMAIN inits : inits[n].err # "nil"

C21_FailedWitness ==
    /\ build = "error"
    /\ \E n \in DOMAIN inits : inits[n].outcome = "other" /\ inits[n].tx = "rolledback"


----------------------------------------------------------------------------
(* C22: a build that fails *)

\* the file is one the walk has yet to visit, or the one it failed on
Unvisited(p) == \E i \in 1..Len(queue) : queue[i] = p

\* the file has left a trace in the instance: a tree, an entry or a variant
Processed(p) ==
    \/ \E n \in DOMAIN templates : templates[n] = <<"/">> \o p
    \/ \E b \in DOMAIN files :
          \E i \in 1..Len(files[b].encodings) : files[b].encodings[i].path = p

\* the file can be loaded: a template file parses, and a compressed companion
\* of a file of the tree decodes to the bytes of that file
Loads(p) ==
    IF Ext(p) = ".html" THEN disk[p].raw.fmt = "template"
    ELSE TrimSuffix(p, Ext(p)) \in DOMAIN disk /\ Ext(p) = ".gz" =>
            disk[p].raw.fmt = "gzip"

\* C22: a build returns an instance only when the walk visited every file,
\* every file loaded and every initializer ran without error; once a build has
\* failed it takes no further step: the file it failed on and those after it
\* leave no trace, no initializer runs after a failure, and the build never
\* turns into an instance.
C22_InstanceOnlyOnSuccess ==
    /\ [](/\ build = "ok" =>
                /\ queue = <<>>
                /\ \A p \in DOMAIN disk : Loads(p)
                /\ \A n \in DOMAIN templates :
                      BeginsWithInit(n) => n \in DOMAIN inits /\ inits[n].err = "nil"
          /\ build = "error" =>
                /\ \A p \in DOMAIN disk : Unvisited(p) => ~Processed(p)
                /\ \/ queue # <<>> /\ ~Loads(Head(queue))
                   \/ queue = <<>> /\ \E n \in DOMAIN templates : BeginsWithInit(n))
    /\ [][build # "error"]_vars

\* witness: the build failed on a file that does not load with a file left to
\* visit after it
C22_Witness ==
    /\ build = "error"
    /\ Len(queue) >= 2
    /\ ~Loads(queue[1])

\* witness: the build failed on a compressed companion that does not decode
C22_StaticWitness ==
    /\ build = "error"
    /\ queue # <<>>
    /\ Ext(Head(queue)) = ".gz"


----------------------------------------------------------------------------
(* Instance identities: concurrent calls of Instance() *)

\* mutant: the counter is read and not advanced
Add_Read(counter, delta) == counter

\* nextInstanceIdentity.Add(delta): the counter's new value, in one atomic step
Add(counter, delta) == counter + delta

\* the call enters Instance(): the instance is allocated and takes its id
\* before any file is scanned
NewInstance(b) ==
    /\ instances[b].pc = "idle"
    /\ nextInstanceIdentity' = Add(nextInstanceIdentity, 1)
    /\ instances' = [instances EXCEPT ![b].pc = "building",
                                      ![b].id = Add(nextInstanceIdentity, 1)]
    /\ drawn' = Append(drawn, b)
    /\ UNCHANGED <<hvars, disk, queue, files, routes, build, resp, tvars, nvars, pvars, rvars>>

\* the call returns: the instance, or nil and an error
InstanceReturn(b, ok) ==
    /\ instances[b].pc = "building"
    /\ instances' = [instances EXCEPT ![b].pc = IF ok THEN "ok" ELSE "failed"]
    /\ UNCHANGED <<nextInstanceIdentity, drawn>>
    /\ UNCHANGED <<hvars, disk, queue, files, routes, build, resp, tvars, nvars, pvars, rvars>>

\* x.Id() on an instance that was returned
Id(b) ==
    /\ instances[b].pc = "ok"
    /\ instances[b].read = 0
    /\ instances' = [instances EXCEPT ![b].read = instances[b].id]
    /\ UNCHANGED <<nextInstanceIdentity, drawn>>
    /\ UNCHANGED <<hvars, disk, queue, files, routes, build, resp, tvars, nvars, pvars, rvars>>

InitId == HandlerIdle /\ StaticOff /\ OthersOff

NextId ==
    \/ \E b \in Builds : NewInstance(b)
    \/ \E b \in Builds, ok \in BOOLEAN : InstanceReturn(b, ok)
    \/ \E b \in Builds : Id(b)

SpecId == InitId /\ [][NextId]_vars

\* the call has taken its id
HasId(b) == instances[b].pc # "idle"

\* C25: over any interleaving of calls of Instance(), failed ones included, no
\* two instances share an id, a call that takes its id later takes a larger
\* one, Id() returns the id taken at construction, and an id once taken never
\* changes.
C25_IdsUniqueAndMonotonic ==
    /\ [](/\ \A a \in Builds, b \in Builds :
                a # b /\ HasId(a) /\ HasId(b) => instances[a].id # instances[b].id
          /\ \A i \in 1..Len(drawn), j \in 1..Len(drawn) :
                i < j => instances[drawn[i]].id < instances[drawn[j]].id
          /\ \A b \in Builds : HasId(b) => instances[b].id > 0
          /\ \A b \in Builds : instances[b].read # 0 => instances[b].read = instances[b].id)
    /\ [][\A b \in Builds : HasId(b) => instances'[b].id = instances[b].id]_vars

\* witness: a call that failed took an id between those of two calls that
\* overlap it, and the instance that took its id last was returned and read
\* first
C25_Witness ==
    /\ Len(drawn) = 3
    /\ instances[drawn[1]].pc = "building"
    /\ instances[drawn[2]].pc = "failed"
    /\ instances[drawn[3]].pc = "ok"
    /\ instances[drawn[3]].read = 3


----------------------------------------------------------------------------
(* C28: encodings refused with q=0 *)

\* C28 as stated: the variant returned is the identity one or one whose
\* encoding the header names with a q above 0
C28_Original ==
    neg.returned =>
        \/ Selected.encoding = "identity"
        \/ \E j \in NamedOffered :
              neg.acceptHeaders[j].enc = Selected.encoding /\ TokenQ(j) > 0

\* the header is "gzip;q=0" alone, the gzip variant is smaller than the
\* identity one, and the gzip variant is returned
C28_ZeroQSelected ==
    /\ neg.returned
    /\ neg.acceptHeaders = <<[enc |-> "gzip", hasQ |-> TRUE, q |-> 0]>>
    /\ Len(neg.encodings) = 2
    /\ neg.encodings[1].encoding = "gzip"
    /\ neg.encodings[2].encoding = "identity"
    /\ neg.idx = 1


----------------------------------------------------------------------------
(* Static files whose name ServeMux reads as a pattern *)

\* the files of the tree: a file, its gzip companion and a file named {x}
MuxNames == {<<"a">>, <<"a", ".gz">>, <<"{x}">>}

MuxTrees ==
    UNION {{f \in [S -> FileRecs] : \A p \in S : f[p].raw \in RawsFor(p)} :
           S \in SUBSET MuxNames}

InitMux ==
    /\ HandlerIdle
    /\ disk \in MuxTrees
    /\ queue = WalkOrder(DOMAIN disk)
    /\ files = NoFile
    /\ routes = NoFile
    /\ build = "scanning"
    /\ resp = NoResp
    /\ templates = NoFile
    /\ pending = NoPending
    /\ inits = NoFile
    /\ neg = NoCall
    /\ OthersOff

SpecMux == InitMux /\ [][NextStatic]_vars

----------------------------------------------------------------------------
(* C30: the entries of the static file map *)

\* the static routes and the static file map name the same paths
RoutesAgree ==
    /\ \A b \in DOMAIN files : GetPattern(b) \in DOMAIN routes
    /\ \A pattern \in DOMAIN routes :
          routes[pattern].kind = "static" =>
              pattern.method = "GET" /\ pattern.path \in DOMAIN files

\* the entry holds a variant, one identity variant, no encoding twice, and its
\* variants by ascending size
EntryWellFormed(file) ==
    LET e == file.encodings
    IN  /\ Len(e) >= 1
        /\ Cardinality({i \in DOMAIN e : e[i].encoding = "identity"}) = 1
        /\ \A i \in DOMAIN e, j \in DOMAIN e : e[i].encoding = e[j].encoding => i = j
        /\ \A i \in DOMAIN e, j \in DOMAIN e : i < j => e[i].size <= e[j].size

\* the map and the routes of a built instance agree and every entry is well
\* formed
EntriesWellFormed ==
    build = "ok" => RoutesAgree /\ \A b \in DOMAIN files : EntryWellFormed(files[b])

\* the static handler found no entry for the path, or the negotiator found no
\* variant or no identity variant
ImpossibleBranch ==
    \/ resp.stage = "done" /\ resp.status = 404 /\ resp.path \notin DOMAIN files
    \/ resp.negErr
    \/ resp.stage = "done" /\ resp.status = 500 /\ resp.file = <<>>

\* C30 as stated: in a built instance the map and the routes agree, every
\* entry is well formed, and no request routed to the static handler takes the
\* 404 "file doesn't exist" branch or one of the negotiator's error branches
C30_Original == EntriesWellFormed /\ ~ImpossibleBranch

\* a request for /zz is routed to the handler of the file named {x}, whose
\* pattern GET /{x} matches any one segment, and answered 404
C30_WildcardMiss ==
    /\ build = "ok"
    /\ GetPattern(<<"/", "{x}">>) \in DOMAIN routes
    /\ resp.stage = "done"
    /\ resp.status = 404
    /\ resp.path = <<"/", "zz">>


----------------------------------------------------------------------------
(* C27: the streaming handler after output *)

\* C27 as stated: once the template has emitted output, the step the
\* streaming handler takes on the error of the execution commits on a
\* ReturnError and leaves the response alone, commits and goes on to delegate
\* on a HandlerError, and on any other error rolls back and ends the stream
\* with no byte added to the response body
C27_Original ==
    [][(handler = "sse" /\ pc = "spost" /\ w.body # <<>>) =>
          /\ outcome = "return" =>
                /\ tx = "open" => tx' \in {"committed", "commitfailed"}
                /\ tx' # "commitfailed" => w' = w
          /\ outcome = "handler" =>
                /\ tx = "open" => tx' \in {"committed", "commitfailed"}
                /\ pc' = "sdelegate"
          /\ outcome = "other" =>
                /\ tx = "open" => tx' = "rolledback"
                /\ pc' = "done"
                /\ w'.body = w.body]_vars

\* the stream, begun with status 200 and the template's output, ends with the
\* text of http.Error after the transaction was rolled back
C27_ErrorTextInStream ==
    /\ pc = "done" /\ handler = "sse" /\ outcome = "other"
    /\ tx = "rolledback"
    /\ w.status = 200
    /\ Len(w.body) >= 2
    /\ w.body[Len(w.body)] = "internal server error"


----------------------------------------------------------------------------
(* bufferingTemplateHandler under concurrent requests: the buffer pool *)

\* mutant: the buffer keeps its bytes
Reset_Keep(bytes) == bytes

\* buf.Reset()
Reset(bytes) == <<>>

\* buf := bufPool.Get().(*bytes.Buffer): a buffer the pool holds, which leaves
\* the pool, or a new, empty one when the pool gives none
PoolGet(r) ==
    /\ reqs[r].pc = "idle"
    /\ runs < MaxRuns
    /\ runs' = runs + 1
    /\ \/ \E b \in pool :
            /\ pool' = pool \ {b}
            /\ bufs' = bufs
            /\ reqs' = [reqs EXCEPT ![r] = [NoReq EXCEPT !.pc = "got", !.buf = b,
                                                         !.run = runs + 1]]
       \/ /\ Len(bufs) < MaxReqs
          /\ pool' = pool
          /\ bufs' = Append(bufs, <<>>)
          /\ reqs' = [reqs EXCEPT ![r] = [NoReq EXCEPT !.pc = "got", !.buf = Len(bufs) + 1,
                                                       !.run = runs + 1]]
    /\ UNCHANGED <<hvars, disk, queue, files, routes, build, resp, tvars, nvars, ivars, rvars>>

\* buf.Reset(); defer bufPool.Put(buf); the dot
PoolReset(r) ==
    /\ reqs[r].pc = "got"
    /\ bufs' = [bufs EXCEPT ![reqs[r].buf] = Reset(@)]
    /\ reqs' = [reqs EXCEPT ![r].pc = "exec"]
    /\ UNCHANGED <<pool, runs>>
    /\ UNCHANGED <<hvars, disk, queue, files, routes, build, resp, tvars, nvars, ivars, rvars>>

\* tmpl.Execute(buf, context) writes a byte of this call's output
PoolWrite(r) ==
    /\ reqs[r].pc = "exec"
    /\ Len(bufs[reqs[r].buf]) < MaxBufLen
    /\ bufs' = [bufs EXCEPT ![reqs[r].buf] = Append(@, reqs[r].run)]
    /\ UNCHANGED <<pool, runs, reqs>>
    /\ UNCHANGED <<hvars, disk, queue, files, routes, build, resp, tvars, nvars, ivars, rvars>>

\* tmpl.Execute returns and the response is written: the sentinel's on a
\* HandlerError, http.Error's on an error of the execution or of the commit,
\* and w.Write(buf.Bytes()) otherwise; body is what the response holds of the
\* buffer's bytes
PoolRespond(r, o, commitOk) ==
    /\ reqs[r].pc = "exec"
    /\ reqs' = IF IsHandlerError(o)
               THEN [reqs EXCEPT ![r].pc = "written", ![r].from = "sentinel"]
               ELSE IF o = "other" \/ ~commitOk
               THEN [reqs EXCEPT ![r].pc = "written", ![r].from = "http.Error"]
               ELSE [reqs EXCEPT ![r].pc = "written", ![r].from = "buf",
                                 ![r].body = bufs[reqs[r].buf]]
    /\ UNCHANGED <<pool, bufs, runs>>
    /\ UNCHANGED <<hvars, disk, queue, files, routes, build, resp, tvars, nvars, ivars, rvars>>

\* the handler returns: the deferred bufPool.Put(buf) runs
PoolPut(r) ==
    /\ reqs[r].pc = "written"
    /\ pool' = pool \cup {reqs[r].buf}
    /\ reqs' = [reqs EXCEPT ![r].pc = "idle", ![r].buf = 0]
    /\ UNCHANGED <<bufs, runs>>
    /\ UNCHANGED <<hvars, disk, queue, files, routes, build, resp, tvars, nvars, ivars, rvars>>

InitPool == HandlerIdle /\ StaticOff /\ OthersOff

NextPool ==
    \/ \E r \in Reqs : PoolGet(r)
    \/ \E r \in Reqs : PoolReset(r)
    \/ \E r \in Reqs : PoolWrite(r)
    \/ \E r \in Reqs, o \in Outcomes, commitOk \in BOOLEAN : PoolRespond(r, o, commitOk)
    \/ \E r \in Reqs : PoolPut(r)

SpecPool == InitPool /\ [][NextPool]_vars

----------------------------------------------------------------------------
(* C26: the buffers of concurrent requests *)

\* the request holds a buffer
Holds(r) == reqs[r].buf # 0

\* the bytes are this call's own output
OwnBytes(r, bytes) == \A i \in 1..Len(bytes) : bytes[i] = reqs[r].run

\* C26: no buffer is held by two requests or held and in the pool; from the
\* moment its request may write to it a buffer holds that request's bytes
\* only; a buffer enters the pool only from a request whose response was
\* written; and the body of a response written from the buffer holds only
\* bytes of that request's own execution.
C26_BuffersNotShared ==
    /\ [](/\ \A r \in Reqs, q \in Reqs :
                r # q /\ Holds(r) /\ Holds(q) => reqs[r].buf # reqs[q].buf
          /\ \A r \in Reqs : Holds(r) => reqs[r].buf \notin pool
          /\ \A r \in Reqs :
                reqs[r].pc \in {"exec", "written"} =>
                    OwnBytes(r, bufs[reqs[r].buf])
          /\ \A r \in Reqs :
                /\ OwnBytes(r, reqs[r].body)
                /\ reqs[r].body # <<>> => reqs[r].from = "buf")
    /\ [][\A b \in pool' \ pool :
             \E r \in Reqs : reqs[r].buf = b /\ reqs[r].pc = "written"]_vars

\* witness: a request wrote its response from a buffer that an earlier call had
\* used and put back, while another request is writing to its own buffer
C26_Witness ==
    \E r \in Reqs, q \in Reqs :
        /\ reqs[r].pc = "written" /\ reqs[r].run = 3 /\ reqs[r].buf = 1
        /\ reqs[r].from = "buf" /\ reqs[r].body = <<3>>
        /\ reqs[q].pc = "exec" /\ reqs[q].buf = 2 /\ bufs[2] = <<2>>


----------------------------------------------------------------------------
(* The supervisor: Reload() beside the requests it forwards *)

\* Reload() is called: it builds a new Instance beside the live one
ReloadStart ==
    /\ reload.pc = "idle"
    /\ reload.n < MaxReloads
    /\ reload' = [pc |-> "building", new |-> reload.n + 2, old |-> 0, err |-> FALSE,
                  n |-> reload.n + 1]
    /\ UNCHANGED <<current, cancelled, clients>>
    /\ UNCHANGED <<hvars, disk, queue, files, routes, build, resp, tvars, nvars, ivars, pvars>>

\* mutant: a failed build retires the instance that serves
ReloadFail_Cancels ==
    /\ reload.pc = "building"
    /\ reload' = [reload EXCEPT !.pc = "idle", !.err = TRUE]
    /\ cancelled' = cancelled \cup {current}
    /\ UNCHANGED <<current, clients>>
    /\ UNCHANGED <<hvars, disk, queue, files, routes, build, resp, tvars, nvars, ivars, pvars>>

\* the build failed: Reload() returns the error and the old instance serves on
ReloadFail ==
    /\ reload.pc = "building"
    /\ reload' = [reload EXCEPT !.pc = "idle", !.err = TRUE]
    /\ UNCHANGED <<current, cancelled, clients>>
    /\ UNCHANGED <<hvars, disk, queue, files, routes, build, resp, tvars, nvars, ivars, pvars>>

\* the build succeeded: the pointer is swapped in one atomic store
ReloadSwap ==
    /\ reload.pc = "building"
    /\ current' = reload.new
    /\ reload' = [reload EXCEPT !.pc = "swapped", !.old = current]
    /\ UNCHANGED <<cancelled, clients>>
    /\ UNCHANGED <<hvars, disk, queue, files, routes, build, resp, tvars, nvars, ivars, pvars>>

\* the retired instance's context is cancelled; Reload() returns nil
ReloadCancel ==
    /\ reload.pc = "swapped"
    /\ cancelled' = cancelled \cup {reload.old}
    /\ reload' = [reload EXCEPT !.pc = "idle"]
    /\ UNCHANGED <<current, clients>>
    /\ UNCHANGED <<hvars, disk, queue, files, routes, build, resp, tvars, nvars, ivars, pvars>>

\* the supervisor's handler reads the pointer for a request
Admit(c) ==
    /\ clients[c].pc = "idle"
    /\ clients' = [clients EXCEPT ![c] = [NoClient EXCEPT !.pc = "loaded", !.inst = current]]
    /\ UNCHANGED <<current, cancelled, reload>>
    /\ UNCHANGED <<hvars, disk, queue, files, routes, build, resp, tvars, nvars, ivars, pvars>>

\* Instance.ServeHTTP: the select on server.config.Ctx.Done(), which answers
\* 500 "server stopped", or else the route's handler is looked up and called
ServeHTTP(c) ==
    /\ clients[c].pc = "loaded"
    /\ clients' = IF clients[c].inst \in cancelled
                  THEN [clients EXCEPT ![c].pc = "done", ![c].status = 500,
                                       ![c].stopped = TRUE]
                  ELSE [clients EXCEPT ![c].pc = "serving"]
    /\ UNCHANGED <<current, cancelled, reload>>
    /\ UNCHANGED <<hvars, disk, queue, files, routes, build, resp, tvars, nvars, ivars, pvars>>

\* the handler of the route runs to its end on the instance that took the
\* request
Handle(c) ==
    /\ clients[c].pc = "serving"
    /\ clients' = [clients EXCEPT ![c].pc = "done", ![c].status = 200]
    /\ UNCHANGED <<current, cancelled, reload>>
    /\ UNCHANGED <<hvars, disk, queue, files, routes, build, resp, tvars, nvars, ivars, pvars>>

\* the request is over
Leave(c) ==
    /\ clients[c].pc = "done"
    /\ clients' = [clients EXCEPT ![c] = NoClient]
    /\ UNCHANGED <<current, cancelled, reload>>
    /\ UNCHANGED <<hvars, disk, queue, files, routes, build, resp, tvars, nvars, ivars, pvars>>

InitReload == HandlerIdle /\ StaticOff /\ OthersOff

NextReload ==
    \/ ReloadStart
    \/ ReloadFail
    \/ ReloadSwap
    \/ ReloadCancel
    \/ \E c \in Clients : Admit(c)
    \/ \E c \in Clients : ServeHTTP(c)
    \/ \E c \in Clients : Handle(c)
    \/ \E c \in Clients : Leave(c)

SpecReload == InitReload /\ [][NextReload]_vars

----------------------------------------------------------------------------
(* C23: a Reload() whose build fails *)

\* C23: when the build of Reload() fails, the pointer is left alone, no
\* instance is cancelled and the error is returned; the pointer changes only
\* in the one step that stores the instance a successful build returned; the
\* instance the pointer names is never cancelled, and a request is handed to
\* the instance the pointer names when the request is admitted.
C23_ReloadKeepsServing ==
    /\ [](current \notin cancelled)
    /\ [][/\ (reload.pc = "building" /\ reload'.err) =>
                /\ current' = current
                /\ cancelled' = cancelled
                /\ reload'.pc = "idle"
          /\ current' # current =>
                /\ reload.pc = "building" /\ ~reload'.err
                /\ current' = reload.new
                /\ cancelled' = cancelled /\ clients' = clients
          /\ \A c \in Clients :
                clients[c].pc = "idle" /\ clients'[c].pc = "loaded" =>
                    clients'[c].inst = current]_vars

\* witness: after a Reload() whose build failed, a request admitted later was
\* served by the first instance
C23_Witness ==
    /\ reload.pc = "idle" /\ reload.err /\ reload.n = 1
    /\ current = 1
    /\ \E c \in Clients : clients[c].pc = "done" /\ clients[c].inst = 1
                          /\ clients[c].status = 200

\* witness: after a Reload() whose build succeeded, the pointer names the new
\* instance
C23_SwapWitness ==
    /\ reload.pc = "swapped" /\ current = 2 /\ reload.old = 1

----------------------------------------------------------------------------
(* C24, C29: requests that overlap a Reload() *)

\* the request is in flight on the instance it was handed to
InFlight(c) == clients[c].pc \in {"loaded", "serving"}

\* C24 as stated: a request in flight is on an instance that is not cancelled,
\* so the cancellation of the old instance waits for the requests on it, and
\* a request ends served with success by the one instance it was handed to
C24_Original ==
    \A c \in Clients :
        /\ InFlight(c) => clients[c].inst \notin cancelled
        /\ clients[c].pc = "done" => clients[c].status = 200

\* the old instance is cancelled while a request it is serving is under way
C24_CancelledUnderRequest ==
    \E c \in Clients :
        /\ clients[c].pc = "serving"
        /\ clients[c].inst = 1
        /\ 1 \in cancelled
        /\ current = 2

\* C29 as stated: no request the supervisor handed to an instance is answered
\* by that instance's cancelled-check
C29_Original == \A c \in Clients : ~clients[c].stopped

\* a request that read the pointer before the swap is answered 500 "server
\* stopped" by the retired instance
C29_StoppedAfterSwap ==
    \E c \in Clients :
        /\ clients[c].pc = "done"
        /\ clients[c].stopped /\ clients[c].status = 500
        /\ clients[c].inst = 1
        /\ current = 2

============================================================================
